---- MODULE Spec2Model ----
(***************************************************************************)
(* Model of the hobbysky client shell: the Dispatch Bridge                 *)
(* (src/utils/tauri-api.ts: mockInvoke, isTauri, invoke) and the view      *)
(* layer handlers that consume its promises (App, Sidebar).                *)
(*                                                                         *)
(* JavaScript values are tagged records.  A text built by concatenation is *)
(* the sequence of its parts, so that "the message contains the command"   *)
(* is a statement about the parts the code put together.                   *)
(***************************************************************************)
EXTENDS Integers, Sequences, FiniteSets, TLC

VARIABLES
    window,      \* the global object: does it exist, and its __TAURI_IPC__ binding
    calls,       \* every invoke(command, args) made so far, with what it returned
    promises,    \* the promise objects created so far, by address
    bridgeLog,   \* what the live bridge's invoke received and answered, in order
    mockLog,     \* what mockInvoke received and answered, in order
    console,     \* console.warn notices, in order
    awaiting,    \* async functions suspended at an await, by the call awaited
    microtasks,  \* calls whose awaiting function is ready to resume, in order
    session,     \* App: useState<string | null>(null)
    posts,       \* App: useState<PostData[]>([])
    loading,     \* App: useState(true)
    error,       \* App: useState<string | null>(null)
    effectPending,     \* App: the [session] effect is due to run
    loginForm,         \* Sidebar: useState({ identifier: '', password: '' })
    isLoginModalOpen,  \* Sidebar: useState(false)
    loginError,        \* Sidebar: useState<string | null>(null)
    isLoggingIn,       \* Sidebar: useState(false)
    post,        \* Post: the post prop
    liked,       \* Post: useState(false)
    likeCount,   \* Post: useState(post.likes_count)
    postId,      \* PostDetail: useParams().postId
    detail,      \* PostDetail: its useState cells (liked, post, replies, loading,
                 \* error, replyText)
    detailEffectPending,  \* PostDetail: the [postId, session] effect is due to run
    objects,     \* the post objects the views hold a reference to, by address
    input,       \* PostInput or TweetInput: the one mounted and its useState('')
    added,       \* the texts the composer passed to its add callback, in order
    comments,    \* Comments: useState(initialComments)
    newComment,  \* Comments: useState('')
    now,         \* the last value Date.now() returned, counted from the mount
    prevented,   \* the submit events on which preventDefault() was called
    tweets,      \* the ids of the tweets prop of the tweet pages
    tweetId,     \* TweetDetail: Number(useParams().tweetId); Undefined on '/'
    tweetCards,  \* Tweet: liked and likeCount of each mounted card, by tweet id
    tweetDetail  \* TweetDetail: its liked and likeCount; Null while not mounted

dispatchVars == <<window, calls, promises, bridgeLog, mockLog, console>>
asyncVars == <<awaiting, microtasks>>
appVars == <<session, posts, loading, error, effectPending>>
sidebarVars == <<loginForm, isLoginModalOpen, loginError, isLoggingIn>>
postVars == <<post, liked, likeCount>>
detailVars == <<postId, detail, detailEffectPending, objects>>
composerVars == <<input, added>>
commentsVars == <<comments, newComment, now>>
formVars == <<composerVars, commentsVars, prevented>>
tweetVars == <<tweets, tweetId, tweetCards, tweetDetail>>
viewVars == <<postVars, detailVars, formVars, tweetVars>>
vars == <<dispatchVars, asyncVars, appVars, sidebarVars, viewVars>>

(***************************************************************************)
(* Bounds                                                                  *)
(***************************************************************************)
MaxCalls == 2
MaxAppCalls == 5
MaxLikeCalls == 3
MaxConsole == 1
MaxLen == 2
MaxSubmits == 2
MaxNow == 1
MaxTweets == 4
MaxFetchRuns == 2

(***************************************************************************)
(* JavaScript values                                                       *)
(***************************************************************************)
Undefined == [type |-> "undefined"]
Null      == [type |-> "null"]
Str(s)    == [type |-> "string", str |-> s]
Bool(b)   == [type |-> "boolean", bool |-> b]
Arr(s)    == [type |-> "array", items |-> s]
Obj(f)    == [type |-> "object", fields |-> f]
Err(m)    == [type |-> "error", message |-> m]
Bridge    == [type |-> "bridge"]
Num(n)    == [type |-> "number", num |-> n]
NaN       == [type |-> "NaN"]
Ref(a)    == [type |-> "ref", addr |-> a]

\* ToBoolean, as used by `&&`, `!` and `if`
Truthy(v) ==
    CASE v.type = "undefined" -> FALSE
      [] v.type = "null"      -> FALSE
      [] v.type = "boolean"   -> v.bool
      [] v.type = "string"    -> v.str # ""
      [] v.type = "number"    -> v.num # 0
      [] v.type = "NaN"       -> FALSE
      [] OTHER                -> TRUE

\* o.f: undefined when o has no such property
Get(o, f) ==
    IF o.type = "object" /\ f \in DOMAIN o.fields THEN o.fields[f] ELSE Undefined

\* v + k and v - k on a number; NaN on undefined or NaN
Plus(v, k) == IF v.type = "number" THEN Num(v.num + k) ELSE NaN
Minus(v, k) == IF v.type = "number" THEN Num(v.num - k) ELSE NaN

\* a + b on texts: the parts of a followed by the parts of b
Concat(a, b) == a \o b
Text(s) == <<s>>
Contains(m, s) == \E i \in DOMAIN m : m[i] = s

(***************************************************************************)
(* Promises                                                                *)
(***************************************************************************)
Pending      == [state |-> "pending", value |-> Undefined]
Fulfilled(v) == [state |-> "fulfilled", value |-> v]
Rejected(e)  == [state |-> "rejected", value |-> e]

\* the address the next promise object gets
NextAddr == Len(promises) + 1

\* what a call expression evaluates to: a promise object (its address), or an
\* exception raised during the call
ReturnsPromise(p) == [kind |-> "promise", promise |-> p, error |-> Undefined]
Throws(e)         == [kind |-> "throw", promise |-> 0, error |-> e]

(***************************************************************************)
(* tauri-api.ts                                                            *)
(***************************************************************************)
MockCommands ==
    {"login", "get_timeline", "create_post", "like_post",
     "get_post_detail", "get_post_replies"}

\* mockInvoke with the get_post_replies branch lost: the command falls through
\* to the rejection
mockInvokeNoReplies(command, args) ==
    [ warn  |-> <<[text |-> Concat(Text("Mock invoke called for command: "),
                                   Text(command)),
                   args |-> args]>>,
      alloc |-> <<IF command = "login" THEN Fulfilled(Str("mock-session-data"))
                  ELSE IF command = "get_timeline" THEN Fulfilled(Arr(<<>>))
                  ELSE IF command = "create_post" THEN Fulfilled(Str("mock-post-uri"))
                  ELSE IF command = "like_post" THEN Fulfilled(Bool(TRUE))
                  ELSE IF command = "get_post_detail" THEN Fulfilled(Obj(<<>>))
                  ELSE Rejected(Err(Concat(Text("Unimplemented mock for: "),
                                           Text(command))))>>,
      ret   |-> ReturnsPromise(NextAddr) ]

\* mockInvoke with a rejection that does not name the command
mockInvokeAnonymousError(command, args) ==
    [ warn  |-> <<[text |-> Concat(Text("Mock invoke called for command: "),
                                   Text(command)),
                   args |-> args]>>,
      alloc |-> <<IF command = "login" THEN Fulfilled(Str("mock-session-data"))
                  ELSE IF command = "get_timeline" THEN Fulfilled(Arr(<<>>))
                  ELSE IF command = "create_post" THEN Fulfilled(Str("mock-post-uri"))
                  ELSE IF command = "like_post" THEN Fulfilled(Bool(TRUE))
                  ELSE IF command = "get_post_detail" THEN Fulfilled(Obj(<<>>))
                  ELSE IF command = "get_post_replies" THEN Fulfilled(Arr(<<>>))
                  ELSE Rejected(Err(Text("Unimplemented mock")))>>,
      ret   |-> ReturnsPromise(NextAddr) ]

\* mockInvoke that simulates a state change: after a create_post the timeline
\* holds the created post
mockInvokeStateful(command, args) ==
    [ warn  |-> <<[text |-> Concat(Text("Mock invoke called for command: "),
                                   Text(command)),
                   args |-> args]>>,
      alloc |-> <<IF command = "login" THEN Fulfilled(Str("mock-session-data"))
                  ELSE IF command = "get_timeline"
                       THEN IF \E k \in DOMAIN mockLog : mockLog[k].command = "create_post"
                            THEN Fulfilled(Arr(<<Str("mock-post-uri")>>))
                            ELSE Fulfilled(Arr(<<>>))
                  ELSE IF command = "create_post" THEN Fulfilled(Str("mock-post-uri"))
                  ELSE IF command = "like_post" THEN Fulfilled(Bool(TRUE))
                  ELSE IF command = "get_post_detail" THEN Fulfilled(Obj(<<>>))
                  ELSE IF command = "get_post_replies" THEN Fulfilled(Arr(<<>>))
                  ELSE Rejected(Err(Concat(Text("Unimplemented mock for: "),
                                           Text(command))))>>,
      ret   |-> ReturnsPromise(NextAddr) ]

\* mockInvoke that gives its notice only when it does not know the command
mockInvokeQuietWhenKnown(command, args) ==
    [ warn  |-> IF command \in MockCommands THEN <<>>
                ELSE <<[text |-> Concat(Text("Mock invoke called for command: "),
                                        Text(command)),
                        args |-> args]>>,
      alloc |-> <<IF command = "login" THEN Fulfilled(Str("mock-session-data"))
                  ELSE IF command = "get_timeline" THEN Fulfilled(Arr(<<>>))
                  ELSE IF command = "create_post" THEN Fulfilled(Str("mock-post-uri"))
                  ELSE IF command = "like_post" THEN Fulfilled(Bool(TRUE))
                  ELSE IF command = "get_post_detail" THEN Fulfilled(Obj(<<>>))
                  ELSE IF command = "get_post_replies" THEN Fulfilled(Arr(<<>>))
                  ELSE Rejected(Err(Concat(Text("Unimplemented mock for: "),
                                           Text(command))))>>,
      ret   |-> ReturnsPromise(NextAddr) ]

\* mockInvoke whose login answers with a session made from the identifier it
\* was given
mockInvokeSessionOfIdentifier(command, args) ==
    [ warn  |-> <<[text |-> Concat(Text("Mock invoke called for command: "),
                                   Text(command)),
                   args |-> args]>>,
      alloc |-> <<IF command = "login" THEN Fulfilled(Get(args, "identifier"))
                  ELSE IF command = "get_timeline" THEN Fulfilled(Arr(<<>>))
                  ELSE IF command = "create_post" THEN Fulfilled(Str("mock-post-uri"))
                  ELSE IF command = "like_post" THEN Fulfilled(Bool(TRUE))
                  ELSE IF command = "get_post_detail" THEN Fulfilled(Obj(<<>>))
                  ELSE IF command = "get_post_replies" THEN Fulfilled(Arr(<<>>))
                  ELSE Rejected(Err(Concat(Text("Unimplemented mock for: "),
                                           Text(command))))>>,
      ret   |-> ReturnsPromise(NextAddr) ]

\* mockInvoke: one console.warn, then Promise.resolve / Promise.reject makes a
\* new, already settled promise (alloc) and returns it
mockInvoke(command, args) ==
    [ warn  |-> <<[text |-> Concat(Text("Mock invoke called for command: "),
                                   Text(command)),
                   args |-> args]>>,
      alloc |-> <<IF command = "login" THEN Fulfilled(Str("mock-session-data"))
                  ELSE IF command = "get_timeline" THEN Fulfilled(Arr(<<>>))
                  ELSE IF command = "create_post" THEN Fulfilled(Str("mock-post-uri"))
                  ELSE IF command = "like_post" THEN Fulfilled(Bool(TRUE))
                  ELSE IF command = "get_post_detail" THEN Fulfilled(Obj(<<>>))
                  ELSE IF command = "get_post_replies" THEN Fulfilled(Arr(<<>>))
                  ELSE Rejected(Err(Concat(Text("Unimplemented mock for: "),
                                           Text(command))))>>,
      ret   |-> ReturnsPromise(NextAddr) ]

\* isTauri with the detection cached at the first call
isTauriCached(w) ==
    IF calls # <<>>
    THEN \E j \in DOMAIN bridgeLog : bridgeLog[j].call = 1
    ELSE w.exists /\ w.TAURI_IPC # Undefined

\* isTauri: typeof window !== 'undefined' && window.__TAURI_IPC__ !== undefined
isTauri(w) == w.exists /\ w.TAURI_IPC # Undefined

\* invoke that forwards the command without its arguments
invokeDropsArgs(w, command, args, ipc) ==
    IF isTauri(w) /\ Truthy(w.TAURI_IPC)
    THEN [ live  |-> <<[command |-> command, args |-> Undefined, ret |-> ipc.ret]>>,
           mock  |-> <<>>,
           warn  |-> <<>>,
           alloc |-> ipc.alloc,
           ret   |-> ipc.ret ]
    ELSE LET m == mockInvoke(command, args)
         IN  [ live  |-> <<>>,
               mock  |-> <<[command |-> command, args |-> args, ret |-> m.ret]>>,
               warn  |-> m.warn,
               alloc |-> m.alloc,
               ret   |-> m.ret ]

\* invoke that consults mockInvoke on every call and then the live bridge
invokeAlsoMock(w, command, args, ipc) ==
    LET m == mockInvoke(command, args)
    IN  IF isTauri(w) /\ Truthy(w.TAURI_IPC)
        THEN [ live  |-> <<[command |-> command, args |-> args, ret |-> ipc.ret]>>,
               mock  |-> <<[command |-> command, args |-> args, ret |-> m.ret]>>,
               warn  |-> m.warn,
               alloc |-> ipc.alloc,
               ret   |-> ipc.ret ]
        ELSE [ live  |-> <<>>,
               mock  |-> <<[command |-> command, args |-> args, ret |-> m.ret]>>,
               warn  |-> m.warn,
               alloc |-> m.alloc,
               ret   |-> m.ret ]

\* invoke that deduplicates: a call whose command is already in flight on the
\* live bridge gets the promise of the earlier call
invokeDedup(w, command, args, ipc) ==
    IF isTauri(w) /\ Truthy(w.TAURI_IPC)
    THEN IF \E j \in DOMAIN bridgeLog :
                /\ bridgeLog[j].command = command
                /\ bridgeLog[j].ret.kind = "promise"
                /\ bridgeLog[j].outcome.state = "pending"
         THEN LET j == CHOOSE j \in DOMAIN bridgeLog :
                        /\ bridgeLog[j].command = command
                        /\ bridgeLog[j].ret.kind = "promise"
                        /\ bridgeLog[j].outcome.state = "pending"
              IN  [ live |-> <<>>, mock |-> <<>>, warn |-> <<>>, alloc |-> <<>>,
                    ret |-> bridgeLog[j].ret ]
         ELSE [ live  |-> <<[command |-> command, args |-> args, ret |-> ipc.ret]>>,
                mock  |-> <<>>,
                warn  |-> <<>>,
                alloc |-> ipc.alloc,
                ret   |-> ipc.ret ]
    ELSE LET m == mockInvoke(command, args)
         IN  [ live  |-> <<>>,
               mock  |-> <<[command |-> command, args |-> args, ret |-> m.ret]>>,
               warn  |-> m.warn,
               alloc |-> m.alloc,
               ret   |-> m.ret ]

\* invoke with a timeout of its own: the caller gets a promise that is rejected
\* when the timer fires, whatever the live bridge does
invokeWithTimeout(w, command, args, ipc) ==
    IF isTauri(w) /\ Truthy(w.TAURI_IPC)
    THEN [ live  |-> <<[command |-> command, args |-> args, ret |-> ipc.ret]>>,
           mock  |-> <<>>,
           warn  |-> <<>>,
           alloc |-> ipc.alloc \o <<Rejected(Err(Text("timeout")))>>,
           ret   |-> ReturnsPromise(NextAddr + Len(ipc.alloc)) ]
    ELSE LET m == mockInvoke(command, args)
         IN  [ live  |-> <<>>,
               mock  |-> <<[command |-> command, args |-> args, ret |-> m.ret]>>,
               warn  |-> m.warn,
               alloc |-> m.alloc,
               ret   |-> m.ret ]

\* invoke with a module-level flag: once a call has been served by
\* mockInvoke, every later call is
invokeStickyMock(w, command, args, ipc) ==
    IF isTauri(w) /\ Truthy(w.TAURI_IPC) /\ mockLog = <<>>
    THEN [ live  |-> <<[command |-> command, args |-> args, ret |-> ipc.ret]>>,
           mock  |-> <<>>,
           warn  |-> <<>>,
           alloc |-> ipc.alloc,
           ret   |-> ipc.ret ]
    ELSE LET m == mockInvoke(command, args)
         IN  [ live  |-> <<>>,
               mock  |-> <<[command |-> command, args |-> args, ret |-> m.ret]>>,
               warn  |-> m.warn,
               alloc |-> m.alloc,
               ret   |-> m.ret ]

\* invoke.  ipc is what window.__TAURI_IPC__.invoke(command, args) does when it
\* is called: the promise it creates (alloc) and what it evaluates to (ret).
\* The result lists the calls delegated to the live bridge and to mockInvoke,
\* the notices, the promises created and what invoke evaluates to.
invoke(w, command, args, ipc) ==
    IF isTauri(w) /\ Truthy(w.TAURI_IPC)
    THEN [ live  |-> <<[command |-> command, args |-> args, ret |-> ipc.ret]>>,
           mock  |-> <<>>,
           warn  |-> <<>>,
           alloc |-> ipc.alloc,
           ret   |-> ipc.ret ]
    ELSE LET m == mockInvoke(command, args)
         IN  [ live  |-> <<>>,
               mock  |-> <<[command |-> command, args |-> args, ret |-> m.ret]>>,
               warn  |-> m.warn,
               alloc |-> m.alloc,
               ret   |-> m.ret ]

(***************************************************************************)
(* Inputs of the dispatch layer                                            *)
(***************************************************************************)
Commands == MockCommands \cup {"export_data"}

TimelineArgs == Obj([service |-> Str("https://bsky.social"), session |-> Null])
ArgMaps == {Undefined, TimelineArgs}

BridgeValues == {Arr(<<Str("p1")>>)}
BridgeErrors == {Err(Text("bridge failure"))}

\* what the live bridge's invoke can do at the call: create and return a
\* promise that it settles later (or never), or raise an exception
IpcAnswers ==
    {[ret |-> ReturnsPromise(NextAddr), alloc |-> <<Pending>>]}
    \cup {[ret |-> Throws(e), alloc |-> <<>>] : e \in BridgeErrors}

\* the values the binding is found with at start, and those the host installs
\* or removes later
InitialBindings == {Undefined, Null, Bridge}
Bindings == {Undefined, Bridge}

(***************************************************************************)
(* Operations                                                              *)
(***************************************************************************)
\* the state change of one invoke(command, args) evaluated by the function `by`,
\* followed by the console lines `log` that the function writes in the same
\* step
InvokeAndLog(by, command, args, ipc, log) ==
    LET r == invoke(window, command, args, ipc)
        i == Len(calls) + 1
    IN  /\ calls' = Append(calls,
                [by |-> by, command |-> command, args |-> args, ret |-> r.ret,
                 window |-> window])
        /\ promises' = promises \o r.alloc
        /\ bridgeLog' = bridgeLog \o
                [k \in 1..Len(r.live) |->
                    [command |-> r.live[k].command, args |-> r.live[k].args,
                     ret |-> r.live[k].ret, call |-> i, outcome |-> Pending]]
        /\ mockLog' = mockLog \o
                [k \in 1..Len(r.mock) |->
                    [command |-> r.mock[k].command, args |-> r.mock[k].args,
                     ret |-> r.mock[k].ret, call |-> i]]
        /\ console' = console \o r.warn \o log

\* the state change of one invoke(command, args) evaluated by the function `by`
DoInvoke(by, command, args, ipc) == InvokeAndLog(by, command, args, ipc, <<>>)

\* a caller evaluates invoke(command, args)
Call(command, args, ipc) ==
    /\ Len(calls) < MaxCalls
    /\ DoInvoke("caller", command, args, ipc)
    /\ UNCHANGED <<window, asyncVars, appVars, sidebarVars>>
    /\ UNCHANGED viewVars

\* the host installs or removes the global binding
SetBinding(b) ==
    /\ window.exists
    /\ window.TAURI_IPC # b
    /\ window' = [window EXCEPT !.TAURI_IPC = b]
    /\ UNCHANGED <<calls, promises, bridgeLog, mockLog, console>>
    /\ UNCHANGED <<asyncVars, appVars, sidebarVars>>
    /\ UNCHANGED viewVars

\* the calls whose awaiting function waits for the promise at address a, in
\* the order in which they were made
RECURSIVE Waiters(_, _)
Waiters(a, n) ==
    IF n = 0 THEN <<>>
    ELSE Waiters(a, n - 1) \o
         (IF /\ \E t \in awaiting : t.call = n
             /\ calls[n].ret.kind = "promise"
             /\ calls[n].ret.promise = a
          THEN <<n>> ELSE <<>>)

\* the live bridge settles the promise it returned for entry j, in a task of
\* its own (no microtask is left over from the previous task); the functions
\* awaiting that promise become ready to resume
BridgeSettle(j, outcome) ==
    /\ microtasks = <<>>
    /\ j \in DOMAIN bridgeLog
    /\ bridgeLog[j].ret.kind = "promise"
    /\ bridgeLog[j].outcome.state = "pending"
    /\ bridgeLog' = [bridgeLog EXCEPT ![j].outcome = outcome]
    /\ promises' = [promises EXCEPT ![bridgeLog[j].ret.promise] = outcome]
    /\ microtasks' = Waiters(bridgeLog[j].ret.promise, Len(calls))
    /\ UNCHANGED <<window, calls, mockLog, console, awaiting>>
    /\ UNCHANGED <<appVars, sidebarVars>>
    /\ UNCHANGED viewVars

BridgeResolve(j, v) == BridgeSettle(j, Fulfilled(v))
BridgeReject(j, e) == BridgeSettle(j, Rejected(e))

\* no tweet page is mounted
NoTweets ==
    /\ tweets = {}
    /\ tweetId = Undefined
    /\ tweetCards = <<>>
    /\ tweetDetail = Null

\* Post, PostDetail, the composers, Comments and the tweet pages are not
\* mounted
NoViews ==
    /\ post = Null
    /\ liked = FALSE
    /\ likeCount = Undefined
    /\ postId = Undefined
    /\ detail = Null
    /\ detailEffectPending = FALSE
    /\ objects = <<>>
    /\ input = <<>>
    /\ added = <<>>
    /\ comments = <<>>
    /\ newComment = <<>>
    /\ now = 0
    /\ prevented = 0
    /\ NoTweets

(***************************************************************************)
(* The dispatch layer driven by arbitrary callers                          *)
(***************************************************************************)
Init ==
    /\ window \in {[exists |-> FALSE, TAURI_IPC |-> Undefined]}
                  \cup {[exists |-> TRUE, TAURI_IPC |-> b] : b \in InitialBindings}
    /\ calls = <<>>
    /\ promises = <<>>
    /\ bridgeLog = <<>>
    /\ mockLog = <<>>
    /\ console = <<>>
    /\ awaiting = {}
    /\ microtasks = <<>>
    /\ session = Null
    /\ posts = Arr(<<>>)
    /\ loading = TRUE
    /\ error = Null
    /\ effectPending = FALSE
    /\ loginForm = [identifier |-> "", password |-> ""]
    /\ isLoginModalOpen = FALSE
    /\ loginError = Null
    /\ isLoggingIn = FALSE
    /\ NoViews

Next ==
    \/ \E c \in Commands, a \in ArgMaps, ipc \in IpcAnswers : Call(c, a, ipc)
    \/ \E b \in Bindings : SetBinding(b)
    \/ \E j \in 1..MaxCalls, v \in BridgeValues : BridgeResolve(j, v)
    \/ \E j \in 1..MaxCalls, e \in BridgeErrors : BridgeReject(j, e)

Spec == Init /\ [][Next]_vars

(***************************************************************************)
(* App (App.tsx) and Sidebar (Sidebar.tsx)                                 *)
(*                                                                         *)
(* An async function that reaches `await invoke(...)` is suspended in      *)
(* `awaiting` under the call it awaits; when the promise is settled the    *)
(* call is queued in `microtasks`, and the function resumes before any     *)
(* other task (user event, bridge answer, effect) runs.                    *)
(***************************************************************************)
ServiceURL == Str("https://bsky.social")

LoadFailed == Str("Failed to load posts. Please try again later.")
CreateFailed == Str("Failed to create post. Please try again later.")
MustLogIn == Str("You must be logged in to post")
LoginFailed == Str("Login failed. Please check your credentials and try again.")

Identifiers == {"", "alice"}
Passwords == {"", "pw"}
PostTexts == {"hello"}

\* what the live bridge may answer to each command
AppBridgeValues(command) ==
    CASE command = "login"        -> {Str("s1")}
      [] command = "get_timeline" -> {Arr(<<Str("p1")>>), Arr(<<Str("p2")>>)}
      [] command = "create_post"  -> {Str("at://post/1")}
      [] OTHER                    -> {Bool(TRUE)}

\* calls that suspended addPost runs will still make
Reserved == Cardinality({t \in awaiting : t.fn = "addPost.create_post"})
CanInvoke(n) == Len(calls) + Reserved + n <= MaxAppCalls

\* no microtask is left and no effect is due: the next task may be a user event
Idle == microtasks = <<>> /\ ~effectPending

\* `await` of what the invoke just evaluated returned: the function is
\* suspended under call i, and is ready to resume at once when the promise is
\* already settled.  q is the microtask queue the step leaves behind.
Suspend(i, fn, sess, ret, q) ==
    /\ awaiting' = awaiting \cup {[call |-> i, fn |-> fn, session |-> sess]}
    /\ microtasks' = IF promises'[ret.promise].state # "pending"
                     THEN Append(q, i) ELSE q

\* the function to resume next, if any
Resumable(fn) ==
    {t \in awaiting : microtasks # <<>> /\ t.call = Head(microtasks) /\ t.fn = fn}

\* setPosts(timeline) of a get_timeline answer that arrives for call i, but
\* only when no get_timeline call was issued after it (stale answers dropped)
ApplyTimelineIfLatest(i, timeline) ==
    IF \E k \in DOMAIN calls : k > i /\ calls[k].command = "get_timeline"
    THEN posts
    ELSE timeline

\* setPosts(timeline): the new value of posts when the get_timeline answer of
\* call i arrives
ApplyTimeline(i, timeline) == timeline

\* App, the [session] effect: fetchTimeline up to its await
FetchTimeline(ipc) ==
    /\ microtasks = <<>>
    /\ effectPending
    /\ CanInvoke(1)
    /\ LET args == Obj([service |-> ServiceURL, session |-> session])
           r == invoke(window, "get_timeline", args, ipc)
       IN  /\ DoInvoke("fetchTimeline", "get_timeline", args, ipc)
           /\ IF r.ret.kind = "throw"
              THEN /\ error' = LoadFailed
                   /\ loading' = FALSE
                   /\ UNCHANGED <<awaiting, microtasks>>
              ELSE /\ loading' = TRUE
                   /\ error' = error
                   /\ Suspend(Len(calls) + 1, "fetchTimeline", session, r.ret, microtasks)
    /\ effectPending' = FALSE
    /\ UNCHANGED <<window, session, posts, sidebarVars>>
    /\ UNCHANGED viewVars

\* fetchTimeline after its await: setPosts or catch, then finally
ResumeFetchTimeline ==
    \E t \in Resumable("fetchTimeline") :
        LET o == promises[calls[t.call].ret.promise]
        IN  /\ IF o.state = "fulfilled"
               THEN /\ posts' = ApplyTimeline(t.call, o.value)
                    /\ error' = error
               ELSE /\ error' = LoadFailed
                    /\ posts' = posts
            /\ loading' = FALSE
            /\ awaiting' = awaiting \ {t}
            /\ microtasks' = Tail(microtasks)
            /\ UNCHANGED <<dispatchVars, session, effectPending, sidebarVars>>
            /\ UNCHANGED viewVars

\* the composer form of PostInput is on screen: Feed is rendered (not
\* loading) and PostInput got a session
PostInputFormRendered == ~loading /\ Truthy(session)

\* App.addPost(postText) up to its first await
addPost(postText, ipc) ==
    /\ IF ~Truthy(session)
       THEN /\ error' = MustLogIn
            /\ UNCHANGED <<dispatchVars, asyncVars>>
       ELSE LET args == Obj([service |-> ServiceURL, session |-> session,
                             text |-> Str(postText)])
                r == invoke(window, "create_post", args, ipc)
            IN  /\ DoInvoke("addPost", "create_post", args, ipc)
                /\ IF r.ret.kind = "throw"
                   THEN /\ error' = CreateFailed
                        /\ UNCHANGED <<awaiting, microtasks>>
                   ELSE /\ error' = error
                        /\ Suspend(Len(calls) + 1, "addPost.create_post", session,
                                   r.ret, microtasks)
    /\ UNCHANGED <<window, session, posts, loading, effectPending, sidebarVars>>
    /\ UNCHANGED viewVars

\* addPost called by PostInput.handleSubmit
AddPost(postText, ipc) ==
    /\ Idle
    /\ PostInputFormRendered
    /\ CanInvoke(2)
    /\ addPost(postText, ipc)

\* addPost called by any holder of the callback, whatever is on screen
CallAddPost(postText, ipc) ==
    /\ Idle
    /\ ~PostInputFormRendered
    /\ Truthy(session) => CanInvoke(2)
    /\ addPost(postText, ipc)

\* addPost goes on to get_timeline whether create_post resolved or was
\* rejected
CreateSettled(o) == o.state # "pending"

\* the await of create_post returned: create_post resolved
CreateSucceeded(o) == o.state = "fulfilled"

\* addPost after create_post settled: the second invoke, up to its await
ResumeAddPostCreated(ipc) ==
    \E t \in Resumable("addPost.create_post") :
        LET o == promises[calls[t.call].ret.promise]
            args == Obj([service |-> ServiceURL, session |-> t.session])
            r == invoke(window, "get_timeline", args, ipc)
        IN  /\ IF CreateSucceeded(o)
               THEN /\ DoInvoke("addPost", "get_timeline", args, ipc)
                    /\ IF r.ret.kind = "throw"
                       THEN /\ error' = CreateFailed
                            /\ awaiting' = awaiting \ {t}
                            /\ microtasks' = Tail(microtasks)
                       ELSE /\ error' = error
                            /\ awaiting' = (awaiting \ {t}) \cup
                                   {[call |-> Len(calls) + 1,
                                     fn |-> "addPost.get_timeline",
                                     session |-> t.session]}
                            /\ microtasks' =
                                   IF promises'[r.ret.promise].state # "pending"
                                   THEN Append(Tail(microtasks), Len(calls) + 1)
                                   ELSE Tail(microtasks)
               ELSE /\ error' = CreateFailed
                    /\ awaiting' = awaiting \ {t}
                    /\ microtasks' = Tail(microtasks)
                    /\ UNCHANGED <<calls, promises, bridgeLog, mockLog, console>>
            /\ UNCHANGED <<window, session, posts, loading, effectPending, sidebarVars>>
            /\ UNCHANGED viewVars

\* addPost after get_timeline settled: setPosts or catch
ResumeAddPostTimeline ==
    \E t \in Resumable("addPost.get_timeline") :
        LET o == promises[calls[t.call].ret.promise]
        IN  /\ IF o.state = "fulfilled"
               THEN /\ posts' = ApplyTimeline(t.call, o.value)
                    /\ error' = error
               ELSE /\ error' = CreateFailed
                    /\ posts' = posts
            /\ awaiting' = awaiting \ {t}
            /\ microtasks' = Tail(microtasks)
            /\ UNCHANGED <<dispatchVars, session, loading, effectPending, sidebarVars>>
            /\ UNCHANGED viewVars

\* the &times; button of the error banner
DismissError ==
    /\ Idle
    /\ Truthy(error)
    /\ error' = Null
    /\ UNCHANGED <<dispatchVars, asyncVars, session, posts, loading, effectPending,
                   sidebarVars>>
    /\ UNCHANGED viewVars

\* Sidebar: the Sign In button (shown without a session) opens the modal
OpenLoginModal ==
    /\ Idle
    /\ ~Truthy(session)
    /\ ~isLoginModalOpen
    /\ isLoginModalOpen' = TRUE
    /\ UNCHANGED <<dispatchVars, asyncVars, appVars, loginForm, loginError, isLoggingIn>>
    /\ UNCHANGED viewVars

\* Sidebar: the &times; button of the modal
CloseLoginModal ==
    /\ Idle
    /\ isLoginModalOpen
    /\ isLoginModalOpen' = FALSE
    /\ UNCHANGED <<dispatchVars, asyncVars, appVars, loginForm, loginError, isLoggingIn>>
    /\ UNCHANGED viewVars

\* Sidebar.handleInputChange: typing into a field of the login form
HandleInputChange(name, value) ==
    /\ Idle
    /\ isLoginModalOpen
    /\ loginForm[name] # value
    /\ loginForm' = [loginForm EXCEPT ![name] = value]
    /\ UNCHANGED <<dispatchVars, asyncVars, appVars, isLoginModalOpen, loginError,
                   isLoggingIn>>
    /\ UNCHANGED viewVars

\* Sidebar.handleLogin up to its await.  The form submits only with both
\* required fields filled and the submit button enabled.
HandleLogin(ipc) ==
    /\ Idle
    /\ isLoginModalOpen
    /\ ~isLoggingIn
    /\ loginForm.identifier # "" /\ loginForm.password # ""
    /\ CanInvoke(1)
    /\ LET args == Obj([service |-> ServiceURL,
                        identifier |-> Str(loginForm.identifier),
                        password |-> Str(loginForm.password)])
           r == invoke(window, "login", args, ipc)
       IN  /\ DoInvoke("handleLogin", "login", args, ipc)
           /\ IF r.ret.kind = "throw"
              THEN /\ loginError' = LoginFailed
                   /\ isLoggingIn' = FALSE
                   /\ UNCHANGED <<awaiting, microtasks>>
              ELSE /\ loginError' = Null
                   /\ isLoggingIn' = TRUE
                   /\ Suspend(Len(calls) + 1, "handleLogin", session, r.ret, microtasks)
    /\ UNCHANGED <<window, appVars, loginForm, isLoginModalOpen>>
    /\ UNCHANGED viewVars

\* variant: the statements after the await run however the call settled
LoginSettled(o) == o.state # "pending"

\* `await invoke('login', ...)` returned a value, it did not raise
LoginSucceeded(o) == o.state = "fulfilled"

\* handleLogin after its await: setSession and reset, or catch, then finally
ResumeHandleLogin ==
    \E t \in Resumable("handleLogin") :
        LET o == promises[calls[t.call].ret.promise]
        IN  /\ IF LoginSucceeded(o)
               THEN /\ session' = o.value
                    /\ effectPending' = (effectPending \/ o.value # session)
                    /\ isLoginModalOpen' = FALSE
                    /\ loginForm' = [identifier |-> "", password |-> ""]
                    /\ loginError' = loginError
               ELSE /\ loginError' = LoginFailed
                    /\ UNCHANGED <<session, effectPending, isLoginModalOpen, loginForm>>
            /\ isLoggingIn' = FALSE
            /\ awaiting' = awaiting \ {t}
            /\ microtasks' = Tail(microtasks)
            /\ UNCHANGED <<dispatchVars, posts, loading, error>>
            /\ UNCHANGED viewVars

\* variant: the logout also drops the functions suspended at an await
HandleLogoutCancels ==
    /\ Idle
    /\ Truthy(session)
    /\ session' = Null
    /\ effectPending' = TRUE
    /\ awaiting' = {}
    /\ UNCHANGED <<dispatchVars, microtasks, posts, loading, error, sidebarVars>>
    /\ UNCHANGED viewVars

\* Sidebar.handleLogout: the account area is shown with a session
HandleLogout ==
    /\ Idle
    /\ Truthy(session)
    /\ session' = Null
    /\ effectPending' = TRUE
    /\ UNCHANGED <<dispatchVars, asyncVars, posts, loading, error, sidebarVars>>
    /\ UNCHANGED viewVars

\* App mounted, in a browser without the bridge or in the host with it
InitApp ==
    /\ window \in {[exists |-> TRUE, TAURI_IPC |-> Undefined],
                   [exists |-> TRUE, TAURI_IPC |-> Bridge]}
    /\ calls = <<>>
    /\ promises = <<>>
    /\ bridgeLog = <<>>
    /\ mockLog = <<>>
    /\ console = <<>>
    /\ awaiting = {}
    /\ microtasks = <<>>
    /\ session = Null
    /\ posts = Arr(<<>>)
    /\ loading = TRUE
    /\ error = Null
    /\ effectPending = TRUE
    /\ loginForm = [identifier |-> "", password |-> ""]
    /\ isLoginModalOpen = FALSE
    /\ loginError = Null
    /\ isLoggingIn = FALSE
    /\ NoViews

NextApp ==
    \/ \E ipc \in IpcAnswers : FetchTimeline(ipc)
    \/ ResumeFetchTimeline
    \/ \E text \in PostTexts, ipc \in IpcAnswers : AddPost(text, ipc)
    \/ \E ipc \in IpcAnswers : ResumeAddPostCreated(ipc)
    \/ ResumeAddPostTimeline
    \/ DismissError
    \/ OpenLoginModal
    \/ CloseLoginModal
    \/ \E v \in Identifiers : HandleInputChange("identifier", v)
    \/ \E v \in Passwords : HandleInputChange("password", v)
    \/ \E ipc \in IpcAnswers : HandleLogin(ipc)
    \/ ResumeHandleLogin
    \/ HandleLogout
    \/ \E j \in DOMAIN bridgeLog :
          \E v \in AppBridgeValues(bridgeLog[j].command) : BridgeResolve(j, v)
    \/ \E j \in DOMAIN bridgeLog, e \in BridgeErrors : BridgeReject(j, e)

SpecApp == InitApp /\ [][NextApp]_vars

(***************************************************************************)
(* App and Sidebar, with addPost also called while PostInput does not show *)
(* its form                                                                *)
(***************************************************************************)
NextAddPost ==
    \/ NextApp
    \/ \E text \in PostTexts, ipc \in IpcAnswers : CallAddPost(text, ipc)

SpecAddPost == InitApp /\ [][NextAddPost]_vars

(***************************************************************************)
(* App and Sidebar in a browser without the bridge, with several           *)
(* credentials to type                                                     *)
(***************************************************************************)
LoginIdentifiers == {"", "alice", "bob"}
LoginPasswords == {"", "pw", "pw2"}

InitMockLogin ==
    /\ InitApp
    /\ window = [exists |-> TRUE, TAURI_IPC |-> Undefined]

NextMockLogin ==
    \/ \E ipc \in IpcAnswers : FetchTimeline(ipc)
    \/ ResumeFetchTimeline
    \/ \E text \in PostTexts, ipc \in IpcAnswers : AddPost(text, ipc)
    \/ \E ipc \in IpcAnswers : ResumeAddPostCreated(ipc)
    \/ ResumeAddPostTimeline
    \/ OpenLoginModal
    \/ CloseLoginModal
    \/ \E v \in LoginIdentifiers : HandleInputChange("identifier", v)
    \/ \E v \in LoginPasswords : HandleInputChange("password", v)
    \/ \E ipc \in IpcAnswers : HandleLogin(ipc)
    \/ ResumeHandleLogin
    \/ HandleLogout

SpecMockLogin == InitMockLogin /\ [][NextMockLogin]_vars

(***************************************************************************)
(* Post (Post.tsx)                                                         *)
(*                                                                         *)
(* One Post card of the Feed, from its mount on.  The session is the prop  *)
(* App passes down; a handler works with the session, liked and likeCount  *)
(* of the render in which the click happened.                              *)
(***************************************************************************)
LikeCounts == {0, 1}
Sessions == {Null, Str("s1")}
LikeAnswers == {Bool(TRUE), Bool(FALSE)}

\* the like clicks that reached invoke so far
LikeCalls == Cardinality({i \in DOMAIN calls : calls[i].command = "like_post"})

\* a post as the backend delivers it
PostData(id, n) ==
    Obj([id |-> Str(id), author |-> Obj(<<>>), likes_count |-> Num(n)])

\* a console.error line
ErrorLine(text, err) == [text |-> Text(text), args |-> err]

\* no invoke has been made
NoCalls ==
    /\ calls = <<>>
    /\ promises = <<>>
    /\ bridgeLog = <<>>
    /\ mockLog = <<>>
    /\ console = <<>>
    /\ awaiting = {}
    /\ microtasks = <<>>

\* the Sidebar at its initial state
SidebarAtStart ==
    /\ loginForm = [identifier |-> "", password |-> ""]
    /\ isLoginModalOpen = FALSE
    /\ loginError = Null
    /\ isLoggingIn = FALSE

\* Post.handleLike up to its await
PostHandleLike(ipc) ==
    /\ Idle
    /\ post # Null
    /\ IF ~Truthy(session)
       THEN /\ Len(console) < MaxConsole
            /\ console' = Append(console,
                   ErrorLine("Must be logged in to like posts", Undefined))
            /\ UNCHANGED <<calls, promises, bridgeLog, mockLog, asyncVars>>
       ELSE /\ LikeCalls < MaxLikeCalls
            /\ LET args == Obj([service |-> ServiceURL, session |-> session,
                                post_uri |-> Get(post, "id")])
                   r == invoke(window, "like_post", args, ipc)
                   i == Len(calls) + 1
               IN  IF r.ret.kind = "throw"
                   THEN /\ InvokeAndLog("Post.handleLike", "like_post", args, ipc,
                               <<ErrorLine("Failed to like post:", r.ret.error)>>)
                        /\ UNCHANGED asyncVars
                   ELSE /\ DoInvoke("Post.handleLike", "like_post", args, ipc)
                        /\ awaiting' = awaiting \cup
                               {[call |-> i, fn |-> "Post.handleLike",
                                 session |-> session, liked |-> liked,
                                 likeCount |-> likeCount]}
                        /\ microtasks' =
                               IF promises'[r.ret.promise].state # "pending"
                               THEN Append(microtasks, i) ELSE microtasks
    /\ UNCHANGED <<window, appVars, sidebarVars, viewVars>>

\* likeCount read where the handler should have read the count of the render
\* it closed over: the current count, with the liked it closed over
PostNextLikeCountOfNow(t) ==
    IF t.liked THEN Minus(likeCount, 1) ELSE Plus(likeCount, 1)

\* liked ? likeCount - 1 : likeCount + 1, on the liked and likeCount the
\* handler closed over
PostNextLikeCount(t) ==
    IF t.liked THEN Minus(t.likeCount, 1) ELSE Plus(t.likeCount, 1)

\* the like taken as done whatever like_post resolved to
LikeSucceededAnyValue(o) == o.state = "fulfilled"

\* `if (success)` after the await: like_post resolved, to a truthy value
LikeSucceeded(o) == o.state = "fulfilled" /\ Truthy(o.value)

\* Post.handleLike after its await: the toggle, or catch
ResumePostHandleLike ==
    \E t \in Resumable("Post.handleLike") :
        LET o == promises[calls[t.call].ret.promise]
        IN  /\ IF LikeSucceeded(o)
               THEN /\ liked' = ~t.liked
                    /\ likeCount' = PostNextLikeCount(t)
               ELSE UNCHANGED <<liked, likeCount>>
            /\ console' = IF o.state = "rejected"
                          THEN Append(console, ErrorLine("Failed to like post:", o.value))
                          ELSE console
            /\ awaiting' = awaiting \ {t}
            /\ microtasks' = Tail(microtasks)
            /\ UNCHANGED <<window, calls, promises, bridgeLog, mockLog>>
            /\ UNCHANGED <<appVars, sidebarVars, post, detailVars, formVars, tweetVars>>

\* App renders again with another session (after a login or a logout) and
\* passes it down to Feed and to the mounted Post
SessionChanges(s) ==
    /\ microtasks = <<>>
    /\ post # Null
    /\ session # s
    /\ session' = s
    /\ UNCHANGED <<dispatchVars, asyncVars, posts, loading, error, effectPending,
                   sidebarVars, viewVars>>

\* a Post card mounted by Feed for a post of the timeline the live bridge
\* delivered
InitPost ==
    /\ window = [exists |-> TRUE, TAURI_IPC |-> Bridge]
    /\ NoCalls
    /\ session \in Sessions
    /\ \E n \in LikeCounts :
          /\ post = PostData("p1", n)
          /\ posts = Arr(<<PostData("p1", n)>>)
          /\ likeCount = Get(PostData("p1", n), "likes_count")
    /\ liked = FALSE
    /\ loading = FALSE
    /\ error = Null
    /\ effectPending = FALSE
    /\ SidebarAtStart
    /\ postId = Undefined
    /\ detail = Null
    /\ detailEffectPending = FALSE
    /\ objects = <<>>
    /\ input = <<>>
    /\ added = <<>>
    /\ comments = <<>>
    /\ newComment = <<>>
    /\ now = 0
    /\ prevented = 0
    /\ NoTweets

(***************************************************************************)
(* PostDetail (PostDetail.tsx)                                             *)
(*                                                                         *)
(* The detail view of one post, from its mount on.  setPost stores a       *)
(* reference to the object the call delivered; handleLike changes that     *)
(* object in place.                                                        *)
(***************************************************************************)
PostIds == {"p1"}

LoadPostFailed == Str("Failed to load post. Please try again later.")
LikeNeedsLogin == Str("You need to be logged in to like posts")
LikeFailed == Str("Failed to like post. Please try again later.")

\* o with its property f set to v
SetField(o, f, v) ==
    Obj([k \in DOMAIN o.fields \cup {f} |-> IF k = f THEN v ELSE o.fields[k]])

\* what the live bridge may answer to each command of the views
ViewBridgeValues(command) ==
    CASE command = "like_post"        -> LikeAnswers
      [] command = "get_post_detail"  -> {PostData(id, n) : id \in PostIds, n \in LikeCounts}
      [] command = "get_post_replies" -> {Arr(<<Str("r1")>>)}
      [] OTHER                        -> {Bool(TRUE)}

\* the function suspended under call i by an await in PostDetail, with the
\* values of the render it closed over
DetailClosure(i, fn) ==
    [call |-> i, fn |-> fn, session |-> session, postId |-> postId,
     liked |-> detail.liked, post |-> detail.post]

\* PostDetail, the [postId, session] effect: fetchPostDetails up to its await
FetchPostDetails(ipc) ==
    /\ microtasks = <<>>
    /\ detail # Null
    /\ detailEffectPending
    /\ detailEffectPending' = FALSE
    /\ IF ~Truthy(postId)
       THEN UNCHANGED <<dispatchVars, asyncVars, detail>>
       ELSE LET args == Obj([service |-> ServiceURL, session |-> session,
                             post_uri |-> postId])
                r == invoke(window, "get_post_detail", args, ipc)
                i == Len(calls) + 1
            IN  IF r.ret.kind = "throw"
                THEN /\ InvokeAndLog("fetchPostDetails", "get_post_detail", args, ipc,
                            <<ErrorLine("Failed to fetch post details:", r.ret.error)>>)
                     /\ detail' = [detail EXCEPT !.error = LoadPostFailed,
                                                 !.loading = FALSE]
                     /\ UNCHANGED asyncVars
                ELSE /\ DoInvoke("fetchPostDetails", "get_post_detail", args, ipc)
                     /\ detail' = [detail EXCEPT !.loading = TRUE]
                     /\ awaiting' = awaiting \cup
                            {DetailClosure(i, "fetchPostDetails.get_post_detail")}
                     /\ microtasks' =
                            IF promises'[r.ret.promise].state # "pending"
                            THEN Append(microtasks, i) ELSE microtasks
    /\ UNCHANGED <<window, appVars, sidebarVars>>
    /\ UNCHANGED <<postVars, postId, objects, formVars, tweetVars>>

\* variant: setPost and the second invoke run however the call settled
PostDetailSettled(o) == o.state # "pending"

\* `await invoke('get_post_detail', ...)` returned a value, it did not raise
PostDetailFetched(o) == o.state = "fulfilled"

\* fetchPostDetails after get_post_detail settled: setPost and the second
\* invoke up to its await, or catch and finally
ResumeFetchPostDetail(ipc) ==
    \E t \in Resumable("fetchPostDetails.get_post_detail") :
        LET o == promises[calls[t.call].ret.promise]
            args == Obj([service |-> ServiceURL, session |-> t.session,
                         post_uri |-> t.postId])
            r == invoke(window, "get_post_replies", args, ipc)
            i == Len(calls) + 1
            a == Len(objects) + 1
        IN  /\ IF PostDetailFetched(o)
               THEN /\ objects' = Append(objects, o.value)
                    /\ IF r.ret.kind = "throw"
                       THEN /\ InvokeAndLog("fetchPostDetails", "get_post_replies", args,
                                   ipc, <<ErrorLine("Failed to fetch post details:",
                                                    r.ret.error)>>)
                            /\ detail' = [detail EXCEPT !.post = Ref(a),
                                                        !.error = LoadPostFailed,
                                                        !.loading = FALSE]
                            /\ awaiting' = awaiting \ {t}
                            /\ microtasks' = Tail(microtasks)
                       ELSE /\ DoInvoke("fetchPostDetails", "get_post_replies", args, ipc)
                            /\ detail' = [detail EXCEPT !.post = Ref(a)]
                            /\ awaiting' = (awaiting \ {t}) \cup
                                   {[t EXCEPT !.call = i,
                                              !.fn = "fetchPostDetails.get_post_replies"]}
                            /\ microtasks' =
                                   IF promises'[r.ret.promise].state # "pending"
                                   THEN Append(Tail(microtasks), i)
                                   ELSE Tail(microtasks)
               ELSE /\ detail' = [detail EXCEPT !.error = LoadPostFailed,
                                                !.loading = FALSE]
                    /\ console' = Append(console,
                           ErrorLine("Failed to fetch post details:", o.value))
                    /\ awaiting' = awaiting \ {t}
                    /\ microtasks' = Tail(microtasks)
                    /\ UNCHANGED <<calls, promises, bridgeLog, mockLog, objects>>
            /\ UNCHANGED <<window, appVars, sidebarVars>>
            /\ UNCHANGED <<postVars, postId, detailEffectPending, formVars, tweetVars>>

\* fetchPostDetails after get_post_replies settled: setReplies or catch, then
\* finally
ResumeFetchPostReplies ==
    \E t \in Resumable("fetchPostDetails.get_post_replies") :
        LET o == promises[calls[t.call].ret.promise]
        IN  /\ IF o.state = "fulfilled"
               THEN /\ detail' = [detail EXCEPT !.replies = o.value,
                                                !.loading = FALSE]
                    /\ console' = console
               ELSE /\ detail' = [detail EXCEPT !.error = LoadPostFailed,
                                                !.loading = FALSE]
                    /\ console' = Append(console,
                           ErrorLine("Failed to fetch post details:", o.value))
            /\ awaiting' = awaiting \ {t}
            /\ microtasks' = Tail(microtasks)
            /\ UNCHANGED <<window, calls, promises, bridgeLog, mockLog>>
            /\ UNCHANGED <<appVars, sidebarVars>>
            /\ UNCHANGED <<postVars, postId, detailEffectPending, objects,
                           formVars, tweetVars>>

\* rendering the post reads post.author.avatar: a TypeError when the object
\* has no author, and React then takes the whole tree down
RenderThrows ==
    /\ detail # Null
    /\ ~detail.loading /\ ~Truthy(detail.error) /\ Truthy(detail.post)
    /\ ~Truthy(Get(objects[detail.post.addr], "author"))

\* the post and its like button are on screen
PostDetailRendered ==
    /\ detail # Null
    /\ ~detail.loading /\ ~Truthy(detail.error) /\ Truthy(detail.post)
    /\ ~RenderThrows

\* PostDetail.handleLike up to its await
DetailHandleLike(ipc) ==
    /\ microtasks = <<>>
    /\ ~detailEffectPending
    /\ PostDetailRendered
    /\ IF ~Truthy(session) \/ ~Truthy(detail.post)
       THEN /\ detail' = [detail EXCEPT !.error = LikeNeedsLogin]
            /\ UNCHANGED <<dispatchVars, asyncVars>>
       ELSE /\ LikeCalls < MaxLikeCalls
            /\ LET args == Obj([service |-> ServiceURL, session |-> session,
                                post_uri |-> Get(objects[detail.post.addr], "id")])
                   r == invoke(window, "like_post", args, ipc)
                   i == Len(calls) + 1
               IN  IF r.ret.kind = "throw"
                   THEN /\ InvokeAndLog("PostDetail.handleLike", "like_post", args, ipc,
                               <<ErrorLine("Failed to like post:", r.ret.error)>>)
                        /\ detail' = [detail EXCEPT !.error = LikeFailed]
                        /\ UNCHANGED asyncVars
                   ELSE /\ DoInvoke("PostDetail.handleLike", "like_post", args, ipc)
                        /\ detail' = detail
                        /\ awaiting' = awaiting \cup
                               {DetailClosure(i, "PostDetail.handleLike")}
                        /\ microtasks' =
                               IF promises'[r.ret.promise].state # "pending"
                               THEN Append(microtasks, i) ELSE microtasks
    /\ UNCHANGED <<window, appVars, sidebarVars>>
    /\ UNCHANGED <<postVars, postId, detailEffectPending, objects, formVars, tweetVars>>

\* the new value of the likes_count of the post object a handleLike closed
\* over: post.likes_count-- when it saw liked, post.likes_count++ otherwise
DetailNextLikesCount(t) ==
    IF t.liked
    THEN Minus(Get(objects[t.post.addr], "likes_count"), 1)
    ELSE Plus(Get(objects[t.post.addr], "likes_count"), 1)

\* PostDetail.handleLike after its await: the toggle, or catch
ResumeDetailHandleLike ==
    \E t \in Resumable("PostDetail.handleLike") :
        LET o == promises[calls[t.call].ret.promise]
        IN  /\ IF LikeSucceeded(o)
               THEN /\ detail' = [detail EXCEPT !.liked = ~t.liked]
                    /\ objects' = [objects EXCEPT ![t.post.addr] =
                           SetField(@, "likes_count", DetailNextLikesCount(t))]
                    /\ console' = console
               ELSE IF o.state = "rejected"
               THEN /\ detail' = [detail EXCEPT !.error = LikeFailed]
                    /\ console' = Append(console,
                           ErrorLine("Failed to like post:", o.value))
                    /\ objects' = objects
               ELSE UNCHANGED <<detail, objects, console>>
            /\ awaiting' = awaiting \ {t}
            /\ microtasks' = Tail(microtasks)
            /\ UNCHANGED <<window, calls, promises, bridgeLog, mockLog>>
            /\ UNCHANGED <<appVars, sidebarVars>>
            /\ UNCHANGED <<postVars, postId, detailEffectPending, formVars, tweetVars>>

\* PostDetail mounted by the /post/:postId route
InitPostDetail ==
    /\ window \in {[exists |-> TRUE, TAURI_IPC |-> Undefined],
                   [exists |-> TRUE, TAURI_IPC |-> Bridge]}
    /\ NoCalls
    /\ session \in Sessions
    /\ posts = Arr(<<>>)
    /\ loading = FALSE
    /\ error = Null
    /\ effectPending = FALSE
    /\ SidebarAtStart
    /\ post = Null
    /\ liked = FALSE
    /\ likeCount = Undefined
    /\ postId \in {Str(id) : id \in PostIds}
    /\ detail = [liked |-> FALSE, post |-> Null, replies |-> Arr(<<>>),
                 loading |-> TRUE, error |-> Null]
    /\ detailEffectPending = TRUE
    /\ objects = <<>>
    /\ input = <<>>
    /\ added = <<>>
    /\ comments = <<>>
    /\ newComment = <<>>
    /\ now = 0
    /\ prevented = 0
    /\ NoTweets

(***************************************************************************)
(* The center panel shows the Feed with a Post, or a PostDetail            *)
(***************************************************************************)
InitViews == InitPost \/ InitPostDetail

NextViews ==
    \/ \E ipc \in IpcAnswers : PostHandleLike(ipc)
    \/ ResumePostHandleLike
    \/ \E ipc \in IpcAnswers : FetchPostDetails(ipc)
    \/ \E ipc \in IpcAnswers : ResumeFetchPostDetail(ipc)
    \/ ResumeFetchPostReplies
    \/ \E ipc \in IpcAnswers : DetailHandleLike(ipc)
    \/ ResumeDetailHandleLike
    \/ \E s \in Sessions : SessionChanges(s)
    \/ \E j \in DOMAIN bridgeLog :
          \E v \in ViewBridgeValues(bridgeLog[j].command) : BridgeResolve(j, v)
    \/ \E j \in DOMAIN bridgeLog, e \in BridgeErrors : BridgeReject(j, e)

SpecViews == InitViews /\ [][NextViews]_vars

(***************************************************************************)
(* PostDetail while its route changes                                      *)
(*                                                                         *)
(* The route '/post/:postId' keeps PostDetail mounted when postId changes: *)
(* the change runs the [postId, session] effect again, which has no        *)
(* cleanup, so earlier fetchPostDetails runs go on.  A change of the       *)
(* session makes App fetch the timeline and show its spinner in place of   *)
(* the Routes, so the PostDetail that is shown afterwards is a new one,    *)
(* as at its mount.  The live bridge answers each call with the data of    *)
(* the post the call names.                                                *)
(***************************************************************************)
RoutePostIds == {"p1", "p2"}

\* the numbers of fetchPostDetails runs started and due
FetchRuns ==
    Cardinality({i \in DOMAIN calls : calls[i].command = "get_post_detail"})
        + (IF detailEffectPending THEN 1 ELSE 0)

\* what the live bridge delivers for an entry: the post, or the replies, of
\* the post_uri the call was made with
FetchedValues(entry) ==
    CASE entry.command = "get_post_detail"
           -> {PostData(Get(entry.args, "post_uri").str, n) : n \in LikeCounts}
      [] entry.command = "get_post_replies"
           -> {Arr(<<Obj([parent |-> Get(entry.args, "post_uri")])>>)}
      [] OTHER -> {Bool(TRUE)}

\* the route changes to the page of another post
PostIdChanges(id) ==
    /\ microtasks = <<>>
    /\ detail # Null
    /\ ~detailEffectPending
    /\ FetchRuns < MaxFetchRuns
    /\ postId # Str(id)
    /\ postId' = Str(id)
    /\ detailEffectPending' = TRUE
    /\ UNCHANGED <<dispatchVars, asyncVars, appVars, sidebarVars, postVars,
                   detail, objects, formVars, tweetVars>>

InitDetailRuns ==
    /\ InitPostDetail
    /\ window = [exists |-> TRUE, TAURI_IPC |-> Bridge]

NextDetailRuns ==
    \/ \E ipc \in IpcAnswers : FetchPostDetails(ipc)
    \/ \E ipc \in IpcAnswers : ResumeFetchPostDetail(ipc)
    \/ ResumeFetchPostReplies
    \/ \E id \in RoutePostIds : PostIdChanges(id)
    \/ \E j \in DOMAIN bridgeLog :
          \E v \in FetchedValues(bridgeLog[j]) : BridgeResolve(j, v)
    \/ \E j \in DOMAIN bridgeLog, e \in BridgeErrors : BridgeReject(j, e)

SpecDetailRuns == InitDetailRuns /\ [][NextDetailRuns]_vars

(***************************************************************************)
(* App, Sidebar and the Feed with the Post card of the first post          *)
(*                                                                         *)
(* App in the host.  App shows the Routes, and with them the Feed and its  *)
(* Post cards, only while loading is FALSE: a fetchTimeline run unmounts   *)
(* the card, and the card that is mounted afterwards starts from its       *)
(* initial state.  A handleLike run of an unmounted card goes on, and its  *)
(* setLiked and setLikeCount change nothing.                               *)
(***************************************************************************)
\* what the live bridge delivers: a timeline of one post, and TRUE for a like
SessionBridgeValues(command) ==
    CASE command = "get_timeline" -> {Arr(<<PostData("p1", 0)>>)}
      [] command = "like_post"    -> {Bool(TRUE)}
      [] OTHER                    -> AppBridgeValues(command)

\* the Feed is rendered and lists a post
FeedShowsPost == ~loading /\ posts.items # <<>>

\* the Feed renders the card of its first post
MountPost ==
    /\ microtasks = <<>>
    /\ FeedShowsPost
    /\ post = Null
    /\ post' = posts.items[1]
    /\ liked' = FALSE
    /\ likeCount' = Get(posts.items[1], "likes_count")
    /\ UNCHANGED <<dispatchVars, asyncVars, appVars, sidebarVars, detailVars,
                   formVars, tweetVars>>

\* App renders the spinner in place of the Routes, or the Feed has no post
UnmountPost ==
    /\ microtasks = <<>>
    /\ ~FeedShowsPost
    /\ post # Null
    /\ post' = Null
    /\ liked' = FALSE
    /\ likeCount' = Undefined
    /\ awaiting' = {IF t.fn = "Post.handleLike"
                    THEN [t EXCEPT !.fn = "Post.handleLike, unmounted"]
                    ELSE t : t \in awaiting}
    /\ UNCHANGED <<dispatchVars, microtasks, appVars, sidebarVars, detailVars,
                   formVars, tweetVars>>

\* a click on the like button of the card
LikeInFeed(ipc) ==
    /\ FeedShowsPost
    /\ CanInvoke(1)
    /\ PostHandleLike(ipc)

\* handleLike of an unmounted card after its await: only the catch is seen
ResumeLikeUnmounted ==
    \E t \in Resumable("Post.handleLike, unmounted") :
        LET o == promises[calls[t.call].ret.promise]
        IN  /\ console' = IF o.state = "rejected"
                          THEN Append(console, ErrorLine("Failed to like post:", o.value))
                          ELSE console
            /\ awaiting' = awaiting \ {t}
            /\ microtasks' = Tail(microtasks)
            /\ UNCHANGED <<window, calls, promises, bridgeLog, mockLog>>
            /\ UNCHANGED <<appVars, sidebarVars, viewVars>>

InitSession ==
    /\ InitApp
    /\ window = [exists |-> TRUE, TAURI_IPC |-> Bridge]

NextSession ==
    \/ \E ipc \in IpcAnswers : FetchTimeline(ipc)
    \/ ResumeFetchTimeline
    \/ \E text \in PostTexts, ipc \in IpcAnswers : AddPost(text, ipc)
    \/ \E ipc \in IpcAnswers : ResumeAddPostCreated(ipc)
    \/ ResumeAddPostTimeline
    \/ OpenLoginModal
    \/ HandleInputChange("identifier", "alice")
    \/ HandleInputChange("password", "pw")
    \/ \E ipc \in IpcAnswers : HandleLogin(ipc)
    \/ ResumeHandleLogin
    \/ HandleLogout
    \/ MountPost
    \/ UnmountPost
    \/ \E ipc \in IpcAnswers : LikeInFeed(ipc)
    \/ ResumePostHandleLike
    \/ ResumeLikeUnmounted
    \/ \E j \in DOMAIN bridgeLog :
          \E v \in SessionBridgeValues(bridgeLog[j].command) : BridgeResolve(j, v)
    \/ \E j \in DOMAIN bridgeLog, e \in BridgeErrors : BridgeReject(j, e)

SpecSession == InitSession /\ [][NextSession]_vars

(***************************************************************************)
(* PostInput (Feed.tsx) and TweetInput (TweetInput.tsx)                    *)
(*                                                                         *)
(* One composer, from its mount on.  A text is the sequence of its         *)
(* characters.  The add callback is a prop: the calls made to it are       *)
(* recorded in added.  handleSubmit is the onClick of the submit button,   *)
(* which is disabled while the input is blank; it is also called directly, *)
(* in the states where the button cannot deliver the click.                *)
(***************************************************************************)
Chars == {" ", "a"}
WhiteSpace == {" "}
Texts == UNION {[1..n -> Chars] : n \in 0..MaxLen}

\* String.prototype.trim
RECURSIVE TrimStart(_)
TrimStart(s) ==
    IF s # <<>> /\ Head(s) \in WhiteSpace THEN TrimStart(Tail(s)) ELSE s

RECURSIVE TrimEnd(_)
TrimEnd(s) ==
    IF s # <<>> /\ s[Len(s)] \in WhiteSpace
    THEN TrimEnd(SubSeq(s, 1, Len(s) - 1))
    ELSE s

Trim(s) == TrimEnd(TrimStart(s))

\* variant: the text itself is tested, not what trim() leaves of it
HasTextUntrimmed(s) == s # <<>>

\* `if (input.trim())`: a string is truthy when it is not empty
HasText(s) == Trim(s) # <<>>

Composers == {"PostInput", "TweetInput"}

\* PostInput returns the sign-in prompt while there is no session
ComposerFormRendered == input.component = "PostInput" => Truthy(session)

\* disabled={!input.trim()}
SubmitEnabled == HasText(input.value)

\* onChange of the textarea
SetInput(text) ==
    /\ ComposerFormRendered
    /\ input.value # text
    /\ input' = [input EXCEPT !.value = text]
    /\ UNCHANGED <<dispatchVars, asyncVars, appVars, sidebarVars, postVars,
                   detailVars, tweetVars, added, commentsVars, prevented>>

handleSubmit ==
    /\ prevented < MaxSubmits
    /\ prevented' = prevented + 1
    /\ IF HasText(input.value)
       THEN /\ added' = Append(added, input.value)
            /\ input' = [input EXCEPT !.value = <<>>]
       ELSE UNCHANGED <<input, added>>
    /\ UNCHANGED <<dispatchVars, asyncVars, appVars, sidebarVars, postVars,
                   detailVars, tweetVars, commentsVars>>

\* a click on the submit button
ClickSubmit ==
    /\ ComposerFormRendered
    /\ SubmitEnabled
    /\ handleSubmit

\* handleSubmit called while the button is disabled or not rendered
CallHandleSubmit ==
    /\ ~(ComposerFormRendered /\ SubmitEnabled)
    /\ handleSubmit

InitCompose ==
    /\ window = [exists |-> TRUE, TAURI_IPC |-> Bridge]
    /\ NoCalls
    /\ session \in Sessions
    /\ posts = Arr(<<>>)
    /\ loading = FALSE
    /\ error = Null
    /\ effectPending = FALSE
    /\ SidebarAtStart
    /\ post = Null
    /\ liked = FALSE
    /\ likeCount = Undefined
    /\ postId = Undefined
    /\ detail = Null
    /\ detailEffectPending = FALSE
    /\ objects = <<>>
    /\ \E c \in Composers : input = [component |-> c, value |-> <<>>]
    /\ added = <<>>
    /\ comments = <<>>
    /\ newComment = <<>>
    /\ now = 0
    /\ prevented = 0
    /\ NoTweets

NextCompose ==
    \/ \E text \in Texts : SetInput(text)
    \/ ClickSubmit
    \/ CallHandleSubmit

SpecCompose == InitCompose /\ [][NextCompose]_vars

(***************************************************************************)
(* Comments (Comments.tsx)                                                 *)
(*                                                                         *)
(* The comment list, from its mount on with the initialComments prop.      *)
(* handleSendComment is the onSubmit of the form, whose submit button is   *)
(* disabled while the input is blank; it is also called directly then.     *)
(***************************************************************************)
UserImg == "https://i.pravatar.cc/150?img=3"

\* the initialComments prop: none, or the first of the sample comments of
\* the detail page, one of another user and one of the user's own
InitialComments ==
    {<<>>,
     <<[id |-> 1, text |-> <<"a">>, username |-> "alex_m",
        userImg |-> "https://i.pravatar.cc/150?img=12",
        timestamp |-> "9:42 AM", isOwn |-> FALSE]>>,
     <<[id |-> 1, text |-> <<"a">>, username |-> "alex_m",
        userImg |-> "https://i.pravatar.cc/150?img=12",
        timestamp |-> "9:42 AM", isOwn |-> FALSE],
       [id |-> 2, text |-> <<"a", " ", "a">>, username |-> "you",
        userImg |-> UserImg, timestamp |-> "9:45 AM", isOwn |-> TRUE]>>}

\* onChange of the text input
SetNewComment(text) ==
    /\ newComment # text
    /\ newComment' = text
    /\ UNCHANGED <<dispatchVars, asyncVars, appVars, sidebarVars, postVars,
                   detailVars, tweetVars, composerVars, comments, now, prevented>>

\* variant: the new comment is put in front of the list
WithCommentFirst(list, comment) == <<comment>> \o list

\* `[...comments, comment]`
WithComment(list, comment) == list \o <<comment>>

handleSendComment ==
    /\ prevented < MaxSubmits
    /\ prevented' = prevented + 1
    /\ IF HasText(newComment)
       THEN /\ now' \in now..MaxNow
            /\ comments' = WithComment(comments,
                              [id |-> now', text |-> newComment,
                               username |-> "you", userImg |-> UserImg,
                               timestamp |-> "Just now", isOwn |-> TRUE])
            /\ newComment' = <<>>
       ELSE UNCHANGED <<comments, newComment, now>>
    /\ UNCHANGED <<dispatchVars, asyncVars, appVars, sidebarVars, postVars,
                   detailVars, tweetVars, composerVars>>

\* the form is submitted: the send button, or Enter in the input
SubmitComment ==
    /\ HasText(newComment)
    /\ handleSendComment

\* handleSendComment called while the send button is disabled
CallHandleSendComment ==
    /\ ~HasText(newComment)
    /\ handleSendComment

InitComments ==
    /\ window = [exists |-> TRUE, TAURI_IPC |-> Bridge]
    /\ NoCalls
    /\ session = Null
    /\ posts = Arr(<<>>)
    /\ loading = FALSE
    /\ error = Null
    /\ effectPending = FALSE
    /\ SidebarAtStart
    /\ post = Null
    /\ liked = FALSE
    /\ likeCount = Undefined
    /\ postId = Undefined
    /\ detail = Null
    /\ detailEffectPending = FALSE
    /\ objects = <<>>
    /\ input = <<>>
    /\ added = <<>>
    /\ comments \in InitialComments
    /\ newComment = <<>>
    /\ now = 0
    /\ prevented = 0
    /\ NoTweets

NextComments ==
    \/ \E text \in Texts : SetNewComment(text)
    \/ SubmitComment
    \/ CallHandleSendComment

SpecComments == InitComments /\ [][NextComments]_vars

(***************************************************************************)
(* Tweet (Tweet.tsx) and TweetDetail (TweetDetail.tsx)                     *)
(*                                                                         *)
(* The tweet pages: on '/' one Tweet card for each tweet of the tweets     *)
(* prop, on '/tweet/:tweetId' the TweetDetail of that tweet.  A page that  *)
(* is left unmounts, and a page that is entered mounts with the initial    *)
(* state of its useState cells.                                            *)
(***************************************************************************)
TweetIds == 1..MaxTweets

\* the page addresses: a tweet of the list, or a number that is the id of none
TweetParams == 0..MaxTweets

\* useState(35)
InitialLikeCount == 35

\* useState(false), useState(35)
TweetAtMount == [liked |-> FALSE, likeCount |-> InitialLikeCount]

\* variant: the count goes up on every click
ToggledUpOnly(t) == [liked |-> ~t.liked, likeCount |-> t.likeCount + 1]

\* handleLike, on the liked and likeCount of the render that shows the button
Toggled(t) ==
    [liked |-> ~t.liked,
     likeCount |-> IF t.liked THEN t.likeCount - 1 ELSE t.likeCount + 1]

\* `tweets.find(t => t.id === Number(tweetId))`
TweetFound == tweetId \in {Num(id) : id \in tweets}

\* Tweet.handleLike: a click on the like group of the card of tweet id; the
\* click is not propagated to the card
TweetHandleLike(id) ==
    /\ tweetId = Undefined
    /\ id \in tweets
    /\ tweetCards' = [tweetCards EXCEPT ![id] = Toggled(tweetCards[id])]
    /\ UNCHANGED <<dispatchVars, asyncVars, appVars, sidebarVars, postVars,
                   detailVars, formVars, tweets, tweetId, tweetDetail>>

\* Tweet.handleNavigateToDetail: a click on the card of tweet id
HandleNavigateToDetail(id) ==
    /\ tweetId = Undefined
    /\ id \in tweets
    /\ tweetId' = Num(id)
    /\ tweetCards' = <<>>
    /\ tweetDetail' = TweetAtMount
    /\ UNCHANGED <<dispatchVars, asyncVars, appVars, sidebarVars, postVars,
                   detailVars, formVars, tweets>>

\* the address '/tweet/n' is entered
OpenTweet(n) ==
    /\ tweetId # Num(n)
    /\ tweetId' = Num(n)
    /\ tweetCards' = <<>>
    /\ tweetDetail' = TweetAtMount
    /\ UNCHANGED <<dispatchVars, asyncVars, appVars, sidebarVars, postVars,
                   detailVars, formVars, tweets>>

\* TweetDetail.handleLike: a click on the heart, shown when the tweet is found
TweetDetailHandleLike ==
    /\ tweetId # Undefined
    /\ TweetFound
    /\ tweetDetail' = Toggled(tweetDetail)
    /\ UNCHANGED <<dispatchVars, asyncVars, appVars, sidebarVars, postVars,
                   detailVars, formVars, tweets, tweetId, tweetCards>>

\* `navigate('/')`: the back button, or "Go back to home"
NavigateHome ==
    /\ tweetId # Undefined
    /\ tweetId' = Undefined
    /\ tweetCards' = [id \in tweets |-> TweetAtMount]
    /\ tweetDetail' = Null
    /\ UNCHANGED <<dispatchVars, asyncVars, appVars, sidebarVars, postVars,
                   detailVars, formVars, tweets>>

InitTweets ==
    /\ window = [exists |-> TRUE, TAURI_IPC |-> Bridge]
    /\ NoCalls
    /\ session = Null
    /\ posts = Arr(<<>>)
    /\ loading = FALSE
    /\ error = Null
    /\ effectPending = FALSE
    /\ SidebarAtStart
    /\ post = Null
    /\ liked = FALSE
    /\ likeCount = Undefined
    /\ postId = Undefined
    /\ detail = Null
    /\ detailEffectPending = FALSE
    /\ objects = <<>>
    /\ input = <<>>
    /\ added = <<>>
    /\ comments = <<>>
    /\ newComment = <<>>
    /\ now = 0
    /\ prevented = 0
    /\ tweets \in SUBSET TweetIds
    /\ tweetId = Undefined
    /\ tweetCards = [id \in tweets |-> TweetAtMount]
    /\ tweetDetail = Null

NextTweets ==
    \/ \E id \in TweetIds : TweetHandleLike(id)
    \/ \E id \in TweetIds : HandleNavigateToDetail(id)
    \/ \E n \in TweetParams : OpenTweet(n)
    \/ TweetDetailHandleLike
    \/ NavigateHome

SpecTweets == InitTweets /\ [][NextTweets]_vars

(***************************************************************************)
(* Properties of the dispatch layer                                        *)
(***************************************************************************)
\* a live bridge exists in the environment w
LiveBridgePresent(w) == w.exists /\ w.TAURI_IPC = Bridge
MockMode(w) == ~LiveBridgePresent(w)

LiveEntries(i) == {j \in DOMAIN bridgeLog : bridgeLog[j].call = i}
MockEntries(i) == {k \in DOMAIN mockLog : mockLog[k].call = i}

\* the state of the promise call i returned; "thrown" when it returned none
Outcome(i) ==
    IF calls[i].ret.kind = "promise" /\ calls[i].ret.promise \in DOMAIN promises
    THEN promises[calls[i].ret.promise]
    ELSE [state |-> "thrown", value |-> calls[i].ret.error]

\* the documented table of canned values
CannedTable ==
    [ login            |-> Str("mock-session-data"),
      get_timeline     |-> Arr(<<>>),
      create_post      |-> Str("mock-post-uri"),
      like_post        |-> Bool(TRUE),
      get_post_detail  |-> Obj(<<>>),
      get_post_replies |-> Arr(<<>>) ]

\* C1: in mock mode, invoke of each of the six recognized commands returns a
\* promise fulfilled with the command's documented canned value, whatever
\* the argument mapping (none included).
C1_MockCannedValues ==
    \A i \in DOMAIN calls :
        (MockMode(calls[i].window) /\ calls[i].command \in DOMAIN CannedTable)
        => /\ calls[i].ret.kind = "promise"
           /\ Outcome(i) = Fulfilled(CannedTable[calls[i].command])

C1_Witness ==
    \E i, j \in DOMAIN calls :
        /\ MockMode(calls[i].window) /\ MockMode(calls[j].window)
        /\ calls[i].command = "get_timeline" /\ calls[i].args = TimelineArgs
        /\ calls[j].command = "get_post_replies" /\ calls[j].args = Undefined
        /\ Outcome(i).state = "fulfilled" /\ Outcome(j).state = "fulfilled"

\* C2: in mock mode, invoke of a command outside the six recognized ones
\* returns a promise that is rejected (in no state fulfilled) with an error
\* whose message contains the command name.
C2_MockUnknownRejects ==
    \A i \in DOMAIN calls :
        (MockMode(calls[i].window) /\ calls[i].command \notin DOMAIN CannedTable)
        => /\ calls[i].ret.kind = "promise"
           /\ Outcome(i).state = "rejected"
           /\ Outcome(i).value.type = "error"
           /\ Contains(Outcome(i).value.message, calls[i].command)

C2_Witness ==
    \E i \in DOMAIN calls :
        /\ MockMode(calls[i].window)
        /\ calls[i].command = "export_data"
        /\ Outcome(i).state = "rejected"
        /\ Contains(Outcome(i).value.message, "export_data")

\* C3: with a live bridge present, a call is forwarded to the bridge with the
\* same command and the same argument mapping, invoke evaluates to exactly
\* what the bridge's invoke evaluated to, and the caller's promise carries
\* the outcome the bridge gave it (same value, same error).
C3_LiveForwarding ==
    \A i \in DOMAIN calls :
        LiveBridgePresent(calls[i].window)
        => \E j \in DOMAIN bridgeLog :
              /\ bridgeLog[j].call = i
              /\ bridgeLog[j].command = calls[i].command
              /\ bridgeLog[j].args = calls[i].args
              /\ bridgeLog[j].ret = calls[i].ret
              /\ calls[i].ret.kind = "promise" => Outcome(i) = bridgeLog[j].outcome

C3_Witness ==
    \E i, j \in DOMAIN calls :
        /\ LiveBridgePresent(calls[i].window) /\ LiveBridgePresent(calls[j].window)
        /\ calls[i].args = TimelineArgs
        /\ Outcome(i) = Fulfilled(Arr(<<Str("p1")>>))
        /\ Outcome(j).state = "rejected"
        /\ Outcome(j).value \in BridgeErrors

\* C4: a call is delegated to the live bridge if and only if a live bridge is
\* bound at the moment of that call, and to the mock responder otherwise,
\* whatever bindings and routes earlier calls saw.
C4_RoutePerCall ==
    \A i \in DOMAIN calls :
        /\ LiveEntries(i) # {} <=> LiveBridgePresent(calls[i].window)
        /\ MockEntries(i) # {} <=> MockMode(calls[i].window)

C4_Witness ==
    /\ Len(calls) >= 2
    /\ calls[1].window.TAURI_IPC = Undefined /\ calls[1].window.exists
    /\ calls[2].window.TAURI_IPC = Bridge
    /\ MockEntries(1) # {} /\ LiveEntries(2) # {}

\* C5: every invoke call has exactly one delegated call, to the live bridge
\* or to the mock responder, in every state: also after the live bridge has
\* rejected it.
C5_ExactlyOneDelegate ==
    /\ \A i \in DOMAIN calls :
          Cardinality(LiveEntries(i)) + Cardinality(MockEntries(i)) = 1
    /\ Len(bridgeLog) + Len(mockLog) = Len(calls)

C5_Witness ==
    \E i \in DOMAIN calls :
        /\ LiveBridgePresent(calls[i].window)
        /\ Outcome(i).state = "rejected"
        /\ Cardinality(LiveEntries(i)) = 1
        /\ MockEntries(i) = {}

\* C6: invoke always evaluates to a promise, never to an exception: every
\* failure reaches the caller as a rejected promise.
C6_AlwaysPromise ==
    \A i \in DOMAIN calls : calls[i].ret.kind = "promise"

\* C7: in mock mode the outcome of a call depends only on its command: two
\* calls of the same command have the same outcome whatever came before
\* them, and get_timeline is fulfilled with the empty list after any calls.
C7_MockStateless ==
    \A i, j \in DOMAIN calls :
        (MockMode(calls[i].window) /\ MockMode(calls[j].window))
        => /\ calls[i].command = calls[j].command => Outcome(i) = Outcome(j)
           /\ calls[i].command = "get_timeline" => Outcome(i) = Fulfilled(Arr(<<>>))

C7_Witness ==
    \E i, j \in DOMAIN calls :
        /\ i < j
        /\ MockMode(calls[i].window) /\ MockMode(calls[j].window)
        /\ calls[i].command = "create_post"
        /\ calls[j].command = "get_timeline"
        /\ Outcome(j) = Fulfilled(Arr(<<>>))

\* the outcome that belongs to call i: the one the live bridge gave to the
\* delegated call made for i, or the mock's answer for i's command
OwnOutcome(i) ==
    IF LiveEntries(i) # {}
    THEN LET j == CHOOSE j \in LiveEntries(i) : TRUE
         IN  IF bridgeLog[j].ret.kind = "promise"
             THEN bridgeLog[j].outcome
             ELSE [state |-> "thrown", value |-> bridgeLog[j].ret.error]
    ELSE IF calls[i].command \in DOMAIN CannedTable
         THEN Fulfilled(CannedTable[calls[i].command])
         ELSE Outcome(i)

\* C8: with several calls in flight, every call has a promise of its own,
\* that promise carries the outcome of its own delegated call (its own
\* command and arguments), and a step that settles one promise changes no
\* other promise; a settled promise never changes.
C8_Independent ==
    /\ [](\A i, j \in DOMAIN calls :
            /\ (i # j /\ calls[i].ret.kind = "promise" /\ calls[j].ret.kind = "promise")
               => calls[i].ret.promise # calls[j].ret.promise
            /\ Outcome(i) = OwnOutcome(i)
            /\ \A k \in LiveEntries(i) :
                  /\ bridgeLog[k].command = calls[i].command
                  /\ bridgeLog[k].args = calls[i].args)
    /\ [][\A a \in DOMAIN promises :
            /\ promises[a].state # "pending" => promises'[a] = promises[a]
            /\ \A b \in DOMAIN promises :
                  (a # b /\ promises'[a] # promises[a]) => promises'[b] = promises[b]]_vars

\* two live calls in flight, the later one settled first
C8_Witness ==
    /\ Len(calls) >= 2
    /\ LiveEntries(1) # {} /\ LiveEntries(2) # {}
    /\ calls[1].command # calls[2].command
    /\ Outcome(1).state = "pending"
    /\ Outcome(2).state = "fulfilled"

\* where a call made under the environment w is delegated, going by w alone
DelegateUnder(w) == IF LiveBridgePresent(w) THEN "live" ELSE "mock"

\* where call i was delegated
DelegateOf(i) ==
    {"live" : j \in LiveEntries(i)} \cup {"mock" : k \in MockEntries(i)}

\* C12: isTauri and invoke change nothing in the environment and keep no
\* state of their own: a step in which invoke is called leaves the global
\* binding as it was, and where a call is delegated is a function of the
\* binding found at that call alone, whatever calls were made before it.
C12_NoSideEffects ==
    /\ [][calls' # calls => window' = window]_vars
    /\ [](\A i \in DOMAIN calls : DelegateOf(i) = {DelegateUnder(calls[i].window)})

\* a call served by the mock, then the host installs the bridge, then a call
\* delegated to the bridge; the binding is still the one the host installed
C12_Witness ==
    /\ Len(calls) >= 2
    /\ MockEntries(1) # {}
    /\ LiveEntries(2) # {}
    /\ calls[2].window = window
    /\ window.TAURI_IPC = Bridge
    /\ Outcome(2).state = "fulfilled"

\* the notice mockInvoke writes for a call of command with args
Notice(command, args) ==
    [text |-> Concat(Text("Mock invoke called for command: "), Text(command)),
     args |-> args]

\* C13: every call handled by mockInvoke writes exactly one notice, for a
\* recognized and for an unrecognized command alike: the notices are, in
\* order, those of the calls mockInvoke handled, and calls delegated to the
\* live bridge write none.  The outcome of the call is the one of the
\* command's row all the same.
C13_OneNoticePerMockCall ==
    /\ Len(console) = Len(mockLog)
    /\ \A k \in DOMAIN mockLog :
          /\ console[k] = Notice(mockLog[k].command, mockLog[k].args)
          /\ Outcome(mockLog[k].call) =
                IF mockLog[k].command \in DOMAIN CannedTable
                THEN Fulfilled(CannedTable[mockLog[k].command])
                ELSE Rejected(Err(Concat(Text("Unimplemented mock for: "),
                                         Text(mockLog[k].command))))

\* an unrecognized command handled by the mock and a call delegated to the
\* live bridge: one notice
C13_Witness ==
    /\ Len(calls) = 2
    /\ \E i, j \in DOMAIN calls :
          /\ MockEntries(i) # {} /\ calls[i].command = "export_data"
          /\ LiveEntries(j) # {}
    /\ Len(console) = 1

(***************************************************************************)
(* Properties of App                                                       *)
(***************************************************************************)
TimelineRuns == {"fetchTimeline", "addPost.get_timeline"}

\* C9: a get_timeline answer is applied to posts when it arrives, whether or
\* not a get_timeline call issued later is in flight or already applied:
\* the step that resumes a fetchTimeline or addPost run on a fulfilled
\* get_timeline call sets posts to that call's result.  So posts holds the
\* result that arrived last, not the result of the call issued last.
C9_AppliedAsArrives ==
    [][\A t \in awaiting :
          ( /\ microtasks # <<>>
            /\ t.call = Head(microtasks)
            /\ t.fn \in TimelineRuns
            /\ Outcome(t.call).state = "fulfilled" )
          => posts' = Outcome(t.call).value]_vars

\* the get_timeline call of a fetchTimeline run and the later one of an
\* addPost run were in flight together; the later one was answered first and
\* is in posts, and the answer of the earlier one is about to be applied
\* over it
C9_Witness ==
    \E t \in awaiting : \E j \in DOMAIN calls :
        /\ microtasks # <<>> /\ t.call = Head(microtasks)
        /\ t.fn = "fetchTimeline"
        /\ j > t.call
        /\ calls[j].by = "addPost" /\ calls[j].command = "get_timeline"
        /\ Outcome(t.call).state = "fulfilled" /\ Outcome(j).state = "fulfilled"
        /\ Outcome(t.call).value # Outcome(j).value
        /\ \A u \in awaiting : u.call # j
        /\ posts = Outcome(j).value
        /\ \A k \in DOMAIN calls : calls[k].ret.kind = "promise"

AddPostCalled ==
    \/ /\ calls' # calls
       /\ calls'[Len(calls')].command = "create_post"
    \/ error # MustLogIn /\ error' = MustLogIn

\* the get_timeline calls of addPost, and the create_post calls that resolved
AddPostTimelineCalls ==
    {j \in DOMAIN calls : calls[j].by = "addPost" /\ calls[j].command = "get_timeline"}
CreatedPosts ==
    {i \in DOMAIN calls : calls[i].command = "create_post"
                          /\ Outcome(i).state = "fulfilled"}

\* C18: addPost with no session issues no call, sets the error MustLogIn and
\* leaves posts as they are; with a session it issues create_post; it issues
\* get_timeline only after create_post has resolved, once for each, and sets
\* posts to the result of that get_timeline; when either call is rejected,
\* posts is unchanged, the error CreateFailed is set and no further call is
\* issued.
C18_AddPostProtocol ==
    /\ [][AddPostCalled
          => /\ posts' = posts
             /\ IF Truthy(session)
                THEN /\ Len(calls') = Len(calls) + 1
                     /\ calls'[Len(calls')].command = "create_post"
                     /\ Get(calls'[Len(calls')].args, "session") = session
                ELSE /\ calls' = calls
                     /\ error' = MustLogIn]_vars
    /\ [](/\ Cardinality(AddPostTimelineCalls) <= Cardinality(CreatedPosts)
          /\ \A j \in AddPostTimelineCalls :
                \E i \in CreatedPosts :
                   /\ i < j
                   /\ Get(calls[j].args, "session") = Get(calls[i].args, "session"))
    /\ [][\A t \in Resumable("addPost.create_post") \cup
                   Resumable("addPost.get_timeline") :
            LET o == Outcome(t.call)
            IN  /\ (o.state = "rejected")
                   => /\ posts' = posts
                      /\ error' = CreateFailed
                      /\ calls' = calls
                      /\ t \notin awaiting'
                /\ (o.state = "fulfilled" /\ t.fn = "addPost.get_timeline")
                   => posts' = o.value
                /\ (o.state = "fulfilled" /\ t.fn = "addPost.create_post")
                   => /\ posts' = posts
                      /\ Len(calls') = Len(calls) + 1
                      /\ calls'[Len(calls')].command = "get_timeline"]_vars

\* an addPost without a session has set MustLogIn, after a logout; before
\* the logout an addPost had its create_post rejected
C18_Witness ==
    /\ ~Truthy(session)
    /\ error = MustLogIn
    /\ awaiting = {}
    /\ \E i \in DOMAIN calls :
          /\ calls[i].command = "create_post"
          /\ Outcome(i).state = "rejected"
    /\ \A k \in DOMAIN calls : calls[k].ret.kind = "promise"

MockSession == Str("mock-session-data")

\* C14: without the bridge, a login submitted through the Sidebar succeeds
\* whatever identifier and password were typed, and the state it leaves does
\* not depend on them: every login call is fulfilled with the fixed token,
\* the session is never anything but null or that token, and the step that
\* resumes handleLogin sets the session to the token, empties the form,
\* closes the modal and leaves the rest of the view as it was.
C14_MockLoginIgnoresCredentials ==
    /\ [](\A i \in DOMAIN calls :
            calls[i].command = "login" => Outcome(i) = Fulfilled(MockSession))
    /\ [](session \in {Null, MockSession})
    /\ [][\A t \in Resumable("handleLogin") :
            /\ session' = MockSession
            /\ loginForm' = [identifier |-> "", password |-> ""]
            /\ ~isLoginModalOpen'
            /\ ~isLoggingIn'
            /\ loginError' = Null
            /\ UNCHANGED <<posts, loading, error>>]_vars

\* two logins with different identifiers and different passwords, both over,
\* with a logout between them
C14_Witness ==
    /\ session = MockSession
    /\ awaiting = {}
    /\ loginForm = [identifier |-> "", password |-> ""]
    /\ \E i, j \in DOMAIN calls :
          /\ i < j
          /\ calls[i].command = "login" /\ calls[j].command = "login"
          /\ Get(calls[i].args, "identifier") # Get(calls[j].args, "identifier")
          /\ Get(calls[i].args, "password") # Get(calls[j].args, "password")
          /\ \E k \in i..j : Get(calls[k].args, "session") = Null
                               /\ calls[k].command = "get_timeline"

(***************************************************************************)
(* Properties of Post and PostDetail                                       *)
(***************************************************************************)
LikeHandlers == {"Post.handleLike", "PostDetail.handleLike"}

\* the handleLike run that resumes in the next step, if any
ResumingLike == {t \in Resumable("Post.handleLike") \cup Resumable("PostDetail.handleLike") : TRUE}

\* the likes counter PostDetail shows: post.likes_count
DetailLikesCount ==
    IF detail # Null /\ Truthy(detail.post)
    THEN Get(objects[detail.post.addr], "likes_count")
    ELSE Undefined

\* the post that get_post_detail delivered to the view
FetchedPosts ==
    {Outcome(i).value : i \in {k \in DOMAIN calls :
                                  /\ calls[k].command = "get_post_detail"
                                  /\ Outcome(k).state = "fulfilled"}}

\* v is a non-negative integer
NonNegative(v) == v.type = "number" /\ v.num >= 0

\* C11: the likes counter shown by Post (likeCount) and by PostDetail
\* (post.likes_count) is a non-negative integer in every state, the fetched
\* count being a non-negative integer.
C11_LikesNonNegative ==
    /\ (post # Null /\ NonNegative(Get(post, "likes_count")))
       => NonNegative(likeCount)
    /\ (detail # Null /\ Truthy(detail.post))
       => \A f \in FetchedPosts :
             NonNegative(Get(f, "likes_count")) => NonNegative(DetailLikesCount)

\* C15: in PostDetail, post.likes_count is the fetched count plus 1 when liked
\* is true and the fetched count when liked is false, after any like clicks
\* and like_post answers.
C15_DetailCountFollowsLiked ==
    (detail # Null /\ Truthy(detail.post))
    => \A f \in FetchedPosts :
          NonNegative(Get(f, "likes_count"))
          => DetailLikesCount =
                 Plus(Get(f, "likes_count"), IF detail.liked THEN 1 ELSE 0)

\* C16: in Post, likeCount is the likes_count the component was mounted with
\* plus 1 when liked is true, and equal to it when liked is false, in every
\* state.
C16_PostCountFollowsLiked ==
    post # Null
    => likeCount = Plus(Get(post, "likes_count"), IF liked THEN 1 ELSE 0)

\* a handler that closed over a render older than the current one (liked has
\* changed since the click) is about to apply its toggle
C16_Witness ==
    \E t \in Resumable("Post.handleLike") :
        /\ t.liked # liked
        /\ t.likeCount # likeCount
        /\ Outcome(t.call) = Fulfilled(Bool(TRUE))

\* liked or a like count changes in the step
LikeStateChanges ==
    \/ liked' # liked
    \/ likeCount' # likeCount
    \/ detail # Null /\ detail'.liked # detail.liked
    \/ \E a \in DOMAIN objects : objects'[a] # objects[a]

\* C17: liked and the like counts change only in the step in which a
\* handleLike run resumes on a like_post that resolved to a truthy value; in
\* a state with no session no like_post call is issued; and a handleLike run
\* that resumes on a rejected like_post ends in its catch (the error is
\* logged, the run is over) with liked and the counts unchanged.
C17_LikeOnlyOnSuccess ==
    [][ /\ LikeStateChanges
           => \E t \in ResumingLike :
                 /\ Outcome(t.call).state = "fulfilled"
                 /\ Truthy(Outcome(t.call).value)
        /\ (~Truthy(session) /\ calls' # calls)
           => calls'[Len(calls')].command # "like_post"
        /\ \A t \in ResumingLike :
              Outcome(t.call).state = "rejected"
              => /\ ~LikeStateChanges
                 /\ t \notin awaiting'
                 /\ console' = Append(console,
                        ErrorLine("Failed to like post:", Outcome(t.call).value))
      ]_vars

\* Post after one like_post resolved true, one resolved false and one was
\* rejected, all three runs over, and a click made without a session
C17_Witness ==
    /\ post # Null
    /\ awaiting = {}
    /\ liked
    /\ \E i, j, k \in DOMAIN calls :
          /\ calls[i].command = "like_post" /\ Outcome(i) = Fulfilled(Bool(TRUE))
          /\ calls[j].command = "like_post" /\ Outcome(j) = Fulfilled(Bool(FALSE))
          /\ calls[k].command = "like_post" /\ Outcome(k).state = "rejected"
    /\ \E n \in DOMAIN console :
          console[n] = ErrorLine("Must be logged in to like posts", Undefined)
    /\ \E n \in DOMAIN console :
          console[n].text = Text("Failed to like post:")

(***************************************************************************)
(* Properties of the composers and of Comments                             *)
(***************************************************************************)
\* a text with no character other than white space
Blank(s) == \A i \in DOMAIN s : s[i] \in WhiteSpace

\* this step is a run of a submit handler
SubmitHandled == prevented' # prevented

\* C19: a submit of PostInput or TweetInput with an input that is empty or
\* all white space makes no call to the add callback and leaves the input as
\* it is; with any other input it makes exactly one call, with the input as
\* typed, and sets the input to the empty string.
C19_SubmitPassesInputAsTyped ==
    [][SubmitHandled
       => IF Blank(input.value)
          THEN /\ added' = added
               /\ input' = input
          ELSE /\ added' = Append(added, input.value)
               /\ input' = [component |-> input.component, value |-> <<>>]]_vars

\* PostInput was submitted once while blank and once with " a", which the
\* callback received with its leading space
C19_Witness ==
    /\ input = [component |-> "PostInput", value |-> <<>>]
    /\ added = << <<" ", "a">> >>
    /\ prevented = 2

IsPrefix(s, t) == Len(s) <= Len(t) /\ SubSeq(t, 1, Len(s)) = s

\* C20: a send of a comment that is not blank puts exactly one comment at the
\* end of the list, with isOwn true, username 'you' and the text as typed,
\* and clears the input; a send of a blank text changes neither the list nor
\* the input; no step removes or reorders the comments already in the list.
C20_SendAppendsOwnComment ==
    /\ [][SubmitHandled
          => IF Blank(newComment)
             THEN /\ comments' = comments
                  /\ newComment' = newComment
             ELSE /\ Len(comments') = Len(comments) + 1
                  /\ SubSeq(comments', 1, Len(comments)) = comments
                  /\ comments'[Len(comments')].isOwn = TRUE
                  /\ comments'[Len(comments')].username = "you"
                  /\ comments'[Len(comments')].text = newComment
                  /\ newComment' = <<>>]_vars
    /\ [][IsPrefix(comments, comments')]_vars

\* after the two initial comments, one send of a blank text and one of "a "
C20_Witness ==
    /\ Len(comments) = 3
    /\ comments[1].username = "alex_m"
    /\ comments[2].id = 2
    /\ comments[3].text = <<"a", " ">>
    /\ comments[3].isOwn
    /\ newComment = <<>>
    /\ prevented = 2

(***************************************************************************)
(* Properties of Tweet and TweetDetail                                     *)
(***************************************************************************)
\* the liked and likeCount pairs of the mounted Tweet cards and TweetDetail
MountedTweetStates ==
    {tweetCards[id] : id \in DOMAIN tweetCards}
        \cup (IF tweetDetail = Null THEN {} ELSE {tweetDetail})

\* this step is a like click on a tweet page
LikeClicked ==
    \/ tweetDetail # Null /\ tweetDetail' # Null /\ tweetDetail' # tweetDetail
    \/ /\ DOMAIN tweetCards' = DOMAIN tweetCards
       /\ tweetCards' # tweetCards

\* C21: in Tweet and TweetDetail likeCount is 36 while liked is true and 35
\* while liked is false; a like click changes liked and likeCount at once;
\* and a second like click gives back the liked and likeCount from before
\* the first.
C21_TweetLikeToggles ==
    /\ [](\A t \in MountedTweetStates :
            /\ t.likeCount = (IF t.liked THEN 36 ELSE 35)
            /\ Toggled(Toggled(t)) = t)
    /\ [][LikeClicked
          => /\ \A id \in DOMAIN tweetCards :
                   tweetCards'[id] # tweetCards[id]
                   => /\ tweetCards'[id].liked = ~tweetCards[id].liked
                      /\ tweetCards'[id].likeCount # tweetCards[id].likeCount
             /\ tweetDetail' # tweetDetail
                   => /\ tweetDetail'.liked = ~tweetDetail.liked
                      /\ tweetDetail'.likeCount # tweetDetail.likeCount]_vars

\* a liked card next to a card that is not liked; and a liked TweetDetail
C21_Witness ==
    \/ /\ tweetId = Undefined
       /\ \E a, b \in DOMAIN tweetCards :
             /\ tweetCards[a] = [liked |-> TRUE, likeCount |-> 36]
             /\ tweetCards[b] = [liked |-> FALSE, likeCount |-> 35]
    \/ /\ tweetId # Undefined
       /\ tweetDetail = [liked |-> TRUE, likeCount |-> 36]

(***************************************************************************)
(* Properties of the Sidebar login                                         *)
(***************************************************************************)
\* the handleLogin runs suspended at their await
LoginRuns == {t \in awaiting : t.fn = "handleLogin"}

\* this step is a submission of the login form
LoginSubmitted ==
    /\ calls' # calls
    /\ calls'[Len(calls')].command = "login"

\* what a submission does before its await, or when its invoke raises
LoginStarts ==
    [][LoginSubmitted
       => IF calls'[Len(calls')].ret.kind = "promise"
          THEN /\ loginError' = Null
               /\ isLoggingIn'
          ELSE /\ loginError' = LoginFailed
               /\ ~isLoggingIn'
               /\ UNCHANGED <<session, isLoginModalOpen, loginForm>>]_vars

\* what a run does once its call has resolved
LoginSuccess ==
    [][\A t \in Resumable("handleLogin") :
          Outcome(t.call).state = "fulfilled"
          => /\ session' = Outcome(t.call).value
             /\ ~isLoginModalOpen'
             /\ loginForm' = [identifier |-> "", password |-> ""]
             /\ ~isLoggingIn']_vars

\* C23 as stated: isLoggingIn is true exactly while a login is in flight; a
\* login that succeeds sets the session, closes the modal and clears the
\* form; after a login that fails the session is as before, the modal is
\* open, the form has its contents and loginError is set.
C23_ModalOpenAfterFailure ==
    /\ [](isLoggingIn <=> LoginRuns # {})
    /\ LoginStarts
    /\ LoginSuccess
    /\ [][\A t \in Resumable("handleLogin") :
            Outcome(t.call).state = "rejected"
            => /\ session' = session
               /\ isLoginModalOpen'
               /\ loginForm' = loginForm
               /\ loginError' = LoginFailed
               /\ ~isLoggingIn']_vars

\* C23, amended: isLoggingIn is true exactly while a login is in flight; a
\* login that succeeds sets the session, closes the modal and clears the
\* form; a login that fails sets loginError and leaves the session, the
\* modal and the form as they are at that moment, so the modal is open
\* unless it was closed while the call was in flight; every submission
\* clears loginError before its call.
C23_LoginOutcome ==
    /\ [](isLoggingIn <=> LoginRuns # {})
    /\ LoginStarts
    /\ LoginSuccess
    /\ [][\A t \in Resumable("handleLogin") :
            Outcome(t.call).state = "rejected"
            => /\ UNCHANGED <<session, isLoginModalOpen, loginForm>>
               /\ loginError' = LoginFailed
               /\ ~isLoggingIn']_vars

\* a login was rejected: the modal is open with the form as typed and the
\* error set, and no session was set
C23_Witness ==
    /\ \E i \in DOMAIN calls :
          calls[i].command = "login" /\ Outcome(i).state = "rejected"
    /\ LoginRuns = {}
    /\ ~isLoggingIn
    /\ isLoginModalOpen
    /\ loginForm = [identifier |-> "alice", password |-> "pw"]
    /\ loginError = LoginFailed
    /\ session = Null

(***************************************************************************)
(* Properties of the loading flag of App                                   *)
(***************************************************************************)
\* the fetchTimeline runs suspended at their await
FetchTimelineRuns == {t \in awaiting : t.fn = "fetchTimeline"}

\* C24: loading is TRUE while the get_timeline call of some fetchTimeline run
\* is not settled, also when a second run was started by a change of the
\* session; and loading is FALSE when every run the session effect started
\* has finished.  Stated for the runs in which no invoke raised.
C24_LoadingCoversFetches ==
    (\A i \in DOMAIN calls : calls[i].ret.kind = "promise")
    => /\ (\E t \in FetchTimelineRuns : Outcome(t.call).state = "pending")
          => loading
       /\ (FetchTimelineRuns = {} /\ ~effectPending) => ~loading

(***************************************************************************)
(* Properties of the fetch of PostDetail                                   *)
(***************************************************************************)
DetailCalls == {i \in DOMAIN calls : calls[i].command = "get_post_detail"}
RepliesCalls == {j \in DOMAIN calls : calls[j].command = "get_post_replies"}

\* the fetchPostDetails runs suspended at one of their awaits
FetchDetailRuns ==
    {t \in awaiting : t.fn \in {"fetchPostDetails.get_post_detail",
                                "fetchPostDetails.get_post_replies"}}

\* the fetchPostDetails run of the mount is the only one and has finished
MountFetchDone ==
    /\ detail # Null
    /\ Cardinality(DetailCalls) = 1
    /\ ~detailEffectPending
    /\ FetchDetailRuns = {}

\* C25: get_post_replies is issued only after a get_post_detail call for the
\* same post has resolved.  A run whose get_post_detail is rejected issues
\* nothing more, leaves post and replies as they are (null and empty after
\* the mount), sets the error and ends with loading FALSE.  A run whose
\* get_post_replies is rejected has set post, leaves replies as they are,
\* sets the error and ends with loading FALSE.  A run whose calls both
\* resolve sets post, then replies, and ends with loading FALSE.  With a
\* postId, loading is FALSE once no run is left.
C25_FetchPostDetailsProtocol ==
    /\ [](\A j \in RepliesCalls :
            \E i \in DetailCalls :
               /\ i < j
               /\ Outcome(i).state = "fulfilled"
               /\ calls[i].args = calls[j].args)
    /\ [][\A t \in Resumable("fetchPostDetails.get_post_detail") :
            LET o == Outcome(t.call)
            IN  /\ (o.state = "rejected")
                   => /\ calls' = calls
                      /\ awaiting' = awaiting \ {t}
                      /\ detail'.post = detail.post
                      /\ detail'.replies = detail.replies
                      /\ detail'.error = LoadPostFailed
                      /\ ~detail'.loading
                /\ (o.state = "fulfilled")
                   => /\ Len(calls') = Len(calls) + 1
                      /\ calls'[Len(calls')].command = "get_post_replies"
                      /\ detail'.post # Null
                      /\ objects'[detail'.post.addr] = o.value
                      /\ detail'.replies = detail.replies]_vars
    /\ [][\A t \in Resumable("fetchPostDetails.get_post_replies") :
            LET o == Outcome(t.call)
            IN  /\ calls' = calls
                /\ awaiting' = awaiting \ {t}
                /\ detail'.post = detail.post
                /\ ~detail'.loading
                /\ IF o.state = "fulfilled"
                   THEN /\ detail'.replies = o.value
                        /\ detail'.error = detail.error
                   ELSE /\ detail'.replies = detail.replies
                        /\ detail'.error = LoadPostFailed]_vars
    /\ []((MountFetchDone /\ Truthy(postId)) => ~detail.loading)
    /\ [](MountFetchDone
           => /\ (\E i \in DetailCalls : Outcome(i).state = "rejected")
                 => /\ RepliesCalls = {}
                    /\ detail.post = Null
                    /\ detail.replies = Arr(<<>>)
                    /\ detail.error = LoadPostFailed
              /\ (\E j \in RepliesCalls : Outcome(j).state = "rejected")
                 => /\ detail.post # Null
                    /\ detail.replies = Arr(<<>>)
                    /\ detail.error = LoadPostFailed)

\* the post was fetched and the fetch of its replies was rejected: the post
\* is set, there are no replies, the error is set and loading is FALSE
C25_Witness ==
    /\ MountFetchDone
    /\ \E j \in RepliesCalls : Outcome(j).state = "rejected"
    /\ detail.post # Null
    /\ Get(objects[detail.post.addr], "id") = postId
    /\ detail.replies = Arr(<<>>)
    /\ detail.error = LoadPostFailed
    /\ ~detail.loading

\* the arguments a fetchPostDetails run of the current render passes
CurrentFetchArgs ==
    Obj([service |-> ServiceURL, session |-> session, post_uri |-> postId])

\* no fetchPostDetails run is left or due, and every call made has resolved
AllRunsSucceeded ==
    /\ detail # Null
    /\ ~detailEffectPending
    /\ FetchDetailRuns = {}
    /\ \A k \in DOMAIN calls : Outcome(k).state = "fulfilled"

\* C26: once every fetchPostDetails run has settled, all calls having
\* resolved, the post and the replies PostDetail holds are the answers to a
\* get_post_detail and a get_post_replies call made for the current postId
\* and session, also when postId changed while an earlier run was in flight.
C26_ShowsCurrentPost ==
    AllRunsSucceeded
    => /\ detail.post # Null
       /\ \E i \in DetailCalls :
             /\ calls[i].args = CurrentFetchArgs
             /\ objects[detail.post.addr] = Outcome(i).value
       /\ \E j \in RepliesCalls :
             /\ calls[j].args = CurrentFetchArgs
             /\ detail.replies = Outcome(j).value

(***************************************************************************)
(* Properties of the session                                               *)
(***************************************************************************)
\* the values the login calls have resolved to
LoginResults ==
    {Outcome(i).value : i \in {k \in DOMAIN calls :
                                  /\ calls[k].command = "login"
                                  /\ Outcome(k).state = "fulfilled"}}

\* the step issues a create_post or a like_post call
SessionCallIssued ==
    /\ Len(calls') = Len(calls) + 1
    /\ calls'[Len(calls')].command \in {"create_post", "like_post"}

====
